---------------------------- MODULE Spec2Model ----------------------------
(***************************************************************************)
(* A model of the autoconvert2 element of gst-plugins-bad                   *)
(* (gst/autoconvert2/gstautoconvert2.c and gstautovideoconvert2.c).         *)
(*                                                                         *)
(* Six specifications share this module:                                   *)
(*   SpecSelect  select_proposals applied to a bounded family of proposal   *)
(*               forests (the dynamic-programming selector, a pure          *)
(*               function of the proposal list);                            *)
(*   SpecChain   the chain generator pulled to exhaustion over a family of  *)
(*               factory catalogs, routes and chain lengths;                *)
(*   SpecPlan    generate_proposals, select_proposals and                   *)
(*               instantiate_proposals applied to a family of elements;     *)
(*   Spec        the element's callbacks running on concurrent streaming    *)
(*               threads: the bin lock, the sink-block condition, the build *)
(*               state, the drain bookkeeping and the live graph;           *)
(*   SpecPads    the element from a built graph on, streaming buffers and   *)
(*               queries, with the host releasing the request src pads;     *)
(*   SpecLive    the element from a built graph on with fair scheduling of  *)
(*               its threads, for the claims about termination.             *)
(***************************************************************************)
EXTENDS Integers, Sequences, FiniteSets, TLC

VARIABLES
    \* ---- SpecSelect ----
    proposals,      \* the GSList handed to select_proposals
    selected,       \* the GSList select_proposals returned
    selSrcCount,    \* the number of output pads of the element
    selPc,          \* "start" before the call, "done" after it
    \* ---- SpecChain ----
    genIndex,       \* priv->factory_index
    genRoute,       \* the sink caps and the src caps of the route
    generator,      \* the ChainGenerator
    genChain,       \* the chain generate_next_chain yielded last
    genPc,          \* "pull" while the generator runs, "done" after it
    test_element_cache, \* generate_proposals' cache of test elements
    elements,       \* the elements array of the last try_chain
    \* ---- SpecPlan ----
    planIn,         \* the element and its pads' caps
    planOut,        \* the proposals, the selection and the graph built
    planPc,         \* "start" before build_graph, "done" after it
    \* ---- Spec: the element ----
    pc,                 \* where each streaming thread / event handler is
    event,              \* the caps event a sink pad's thread is handling
    sink_pads_it,       \* begin_rebuilding_graph: position in its sink_pads
    awaiting_drain,     \* begin_rebuilding_graph: its awaiting_drain
    state,              \* priv->state
    lock,               \* the owner of priv->lock
    sink_block_cond,    \* the threads waiting on priv->sink_block_cond
    pending_drain_pads, \* priv->pending_drain_pads
    need_reconfigure,   \* GST_PAD_FLAG_NEED_RECONFIGURE of each src pad
    current_caps,       \* the sticky caps of each sink pad
    graph,              \* the children of the bin and the ghost pad targets
    sink_eos,           \* the sink pads whose target has received EOS
    eos_in_flight,      \* the src pads an EOS is travelling to
    priv,               \* the video policy's private data
    caps_events,        \* caps events the upstream elements have sent
    reconfigures,       \* reconfigure events the downstream elements sent
    srcpads,            \* GST_ELEMENT (autoconvert2)->srcpads
    began,              \* what the operation of each sink pad has seen
    unacked,            \* the src pads recorded when DRAINING was entered
                        \* whose EOS has not come back
    entered_empty       \* the threads in begin_rebuilding_graph that entered
                        \* DRAINING with no src pad to record

selVars == <<proposals, selected, selSrcCount, selPc>>

chainVars == <<genIndex, genRoute, generator, genChain, genPc,
               test_element_cache, elements>>

planVars == <<planIn, planOut, planPc>>

\* The variables of the pure-function specifications.
offVars == <<selVars, chainVars, planVars>>

locals == <<event, sink_pads_it, awaiting_drain>>

elemVars == <<pc, event, sink_pads_it, awaiting_drain, state, lock,
              sink_block_cond, pending_drain_pads, need_reconfigure,
              current_caps, graph, sink_eos, eos_in_flight, priv,
              caps_events, reconfigures, srcpads, began,
              unacked, entered_empty>>

vars == <<offVars, elemVars>>

(***************************************************************************)
(* guint arithmetic.  A guint is kept as its two 16 bit halves <<hi, lo>>,  *)
(* so that sums are taken modulo 2^32 exactly as the C code takes them.     *)
(* An exact (unwrapped) sum keeps the carries in an unreduced high half.    *)
(***************************************************************************)
U32(hi, lo) == <<hi, lo>>

UINT_MAX == <<65535, 65535>>

U32Add(a, b) ==
    LET lo == a[2] + b[2]
    IN  <<(a[1] + b[1] + (lo \div 65536)) % 65536, lo % 65536>>

U32Less(a, b) == a[1] < b[1] \/ (a[1] = b[1] /\ a[2] < b[2])

ExactAdd(a, b) ==
    LET lo == a[2] + b[2]
    IN  <<a[1] + b[1] + (lo \div 65536), lo % 65536>>

ExactLess(a, b) == a[1] < b[1] \/ (a[1] = b[1] /\ a[2] < b[2])

ExactLeq(a, b) == a = b \/ ExactLess(a, b)


(***************************************************************************)
(* Bit sets over the output pads, as the C code keeps them in a guint.      *)
(***************************************************************************)
RECURSIVE BitAnd(_, _)
BitAnd(a, b) ==
    IF a = 0 \/ b = 0 THEN 0
    ELSE ((a % 2) * (b % 2)) + 2 * BitAnd(a \div 2, b \div 2)

RECURSIVE BitOr(_, _)
BitOr(a, b) ==
    IF a = 0 THEN b
    ELSE IF b = 0 THEN a
    ELSE (IF (a % 2) + (b % 2) > 0 THEN 1 ELSE 0) + 2 * BitOr(a \div 2, b \div 2)

\* index_pads: a pad's id is its position in the element's pad list; the
\* model names an output pad by that position, 0 .. src_count - 1.
index_pads(pad) == pad

(***************************************************************************)
(* A proposal list is a sequence of records                                 *)
(*   [parent, pad, parent_step, src_pad, step_count, cost]                  *)
(* parent is the position in the list of the parent proposal, 0 for NULL    *)
(* (a direct proposal, parented on the sink pad `pad`).                     *)
(***************************************************************************)

\* A selection list that holds the proposal alone, without its parents.
LeafSelection(props, i) ==
    IF i = 0 THEN <<>> ELSE <<i>>

\* The loop of lines 1455-1461: the selection list (g_slist_prepend while
\* walking towards the root, so the root comes first) ...
RECURSIVE ChainSelection(_, _)
ChainSelection(props, i) ==
    IF i = 0 THEN <<>>
    ELSE ChainSelection(props, props[i].parent) \o <<i>>

\* ... the set of output pads on the parent path ...
RECURSIVE ChainSrcSet(_, _)
ChainSrcSet(props, i) ==
    IF i = 0 THEN 0
    ELSE BitOr(2 ^ index_pads(props[i].src_pad),
               ChainSrcSet(props, props[i].parent))

\* ... and the guint sum of the costs on the parent path.
RECURSIVE ChainCost(_, _)
ChainCost(props, i) ==
    IF i = 0 THEN U32(0, 0)
    ELSE U32Add(props[i].cost, ChainCost(props, props[i].parent))

\* memset (min_costs, 0xFF, ...) and g_malloc0 (selected_proposals).
EmptyTable(src_count) ==
    [min_costs |-> [s \in 0 .. (2 ^ src_count) - 1 |-> UINT_MAX],
     selected_proposals |-> [s \in 0 .. (2 ^ src_count) - 1 |-> <<>>]]

\* "First populate the cost table with the proposals."
RECURSIVE PopulateTable(_, _, _)
PopulateTable(props, k, tab) ==
    IF k > Len(props) THEN tab
    ELSE LET src_set == ChainSrcSet(props, k)
             cost == ChainCost(props, k)
         IN  IF U32Less(cost, tab.min_costs[src_set])
             THEN PopulateTable(props, k + 1,
                    [min_costs |-> [tab.min_costs EXCEPT ![src_set] = cost],
                     selected_proposals |->
                        [tab.selected_proposals EXCEPT
                            ![src_set] = ChainSelection(props, k)]])
             ELSE PopulateTable(props, k + 1, tab)

\* The inner loop of lines 1477-1490 for one `set`: subset runs from set
\* down through (subset - 1) & set; the result is <<cost, selected>>.
RECURSIVE SplitLoop(_, _, _, _, _)
SplitLoop(tab, set, subset, cost, sel) ==
    IF subset = 0 THEN <<cost, sel>>
    ELSE LET other_subset == set - subset     \* set ^ subset, subset within set
             subset_cost == tab.min_costs[subset]
             other_subset_cost == tab.min_costs[other_subset]
             alt_cost == U32Add(subset_cost, other_subset_cost)
             next == BitAnd(subset - 1, set)
         IN  IF /\ subset_cost # UINT_MAX
                /\ other_subset_cost # UINT_MAX
                /\ U32Less(alt_cost, cost)
             THEN SplitLoop(tab, set, next, alt_cost,
                            tab.selected_proposals[subset]
                              \o tab.selected_proposals[other_subset])
             ELSE SplitLoop(tab, set, next, cost, sel)

\* The outer loop of lines 1474-1493.
RECURSIVE SplitTable(_, _, _)
SplitTable(tab, set, src_count) ==
    IF set >= 2 ^ src_count THEN tab
    ELSE LET r == SplitLoop(tab, set, set, tab.min_costs[set],
                            tab.selected_proposals[set])
         IN  SplitTable(
                [min_costs |-> [tab.min_costs EXCEPT ![set] = r[1]],
                 selected_proposals |->
                    [tab.selected_proposals EXCEPT ![set] = r[2]]],
                set + 1, src_count)

\* The filled table (both loops).
SelectTable(props, src_count) ==
    SplitTable(PopulateTable(props, 1, EmptyTable(src_count)), 1, src_count)

\* select_proposals: the list recorded for the full set of output pads, as a
\* sequence of positions in props.
select_proposals(props, src_count) ==
    SelectTable(props, src_count).selected_proposals[(2 ^ src_count) - 1]

(***************************************************************************)
(* Capabilities.  A GstCaps is the set of formats (structures) it holds; a  *)
(* fixed caps is a singleton; a pad without current caps (NULL) and empty   *)
(* caps are both the empty set: neither intersects anything.                *)
(***************************************************************************)
gst_caps_can_intersect(a, b) == a \cap b # {}

\* The lowest format of a non-empty caps: what fixation picks.
FirstFormat(caps) == CHOOSE f \in caps : \A g \in caps : f <= g

(***************************************************************************)
(* The factory index.  A catalog is a sequence of factories                 *)
(*   [name, sinks, srcs, sink_caps, src_caps, klass]                        *)
(* with sinks / srcs the number of static sink / src pad templates and      *)
(* klass the set of KlassStrings its metadata contains.                     *)
(***************************************************************************)
CONVERTER == 1
DECODER == 2
ENCODER == 4
PARSER == 8

\* A template search that takes the first template of each direction.
find_first_pad_templates(factory) ==
    factory.sinks >= 1 /\ factory.srcs >= 1

\* find_pad_templates: exactly one sink and one src template.
find_pad_templates(factory) ==
    factory.sinks = 1 /\ factory.srcs = 1

\* "Index the klasses": bit j for KlassStrings[j].
klass_mask(klass) ==
    (IF "Converter" \in klass THEN CONVERTER ELSE 0)
  + (IF "Decoder" \in klass THEN DECODER ELSE 0)
  + (IF "Encoder" \in klass THEN ENCODER ELSE 0)
  + (IF "Parser" \in klass THEN PARSER ELSE 0)

create_factory_index_entry(factory) ==
    [factory |-> factory.name, sink_caps |-> factory.sink_caps,
     src_caps |-> factory.src_caps, klass_mask |-> klass_mask(factory.klass)]

\* index_factories: g_slist_prepend of every accepted factory, so the index
\* holds them in the reverse of the catalog's order.
RECURSIVE index_factories(_)
index_factories(catalog) ==
    IF catalog = <<>> THEN <<>>
    ELSE index_factories(Tail(catalog)) \o
            (IF find_pad_templates(Head(catalog))
             THEN <<create_factory_index_entry(Head(catalog))>>
             ELSE <<>>)

\* "Accumulate the union of all caps" (lines 720-730), from entry i of the
\* index on: [sink_caps, src_caps], priv->sink_caps and priv->src_caps.
RECURSIVE AccumulateCaps(_, _, _)
AccumulateCaps(index, i, acc) ==
    IF i > Len(index) THEN acc
    ELSE AccumulateCaps(index, i + 1,
            [sink_caps |-> acc.sink_caps \cup index[i].sink_caps,
             src_caps |-> acc.src_caps \cup index[i].src_caps])

all_sink_caps(index) ==
    AccumulateCaps(index, 1, [sink_caps |-> {}, src_caps |-> {}]).sink_caps

all_src_caps(index) ==
    AccumulateCaps(index, 1, [sink_caps |-> {}, src_caps |-> {}]).src_caps

(***************************************************************************)
(* Caps queries.  A filter is [given, caps]: given is FALSE for the NULL    *)
(* filter.  Every pad asked has a peer, and the peer answers a filtered     *)
(* query with what it advertises within the filter.                         *)
(***************************************************************************)
NoFilter == [given |-> FALSE, caps |-> {}]

Filter(caps) == [given |-> TRUE, caps |-> caps]

gst_pad_peer_query_caps(peer_caps, filter) ==
    IF filter.given THEN peer_caps \cap filter.caps ELSE peer_caps

\* The for loop of lines 775-777 over the pads from position i on, peers[i]
\* what the peer of the i-th pad advertises.
RECURSIVE MergePeerCaps(_, _, _, _)
MergePeerCaps(peers, filter, i, caps) ==
    IF i > Len(peers) THEN caps
    ELSE MergePeerCaps(peers, filter, i + 1,
            caps \cup gst_pad_peer_query_caps(peers[i], filter))

\* A query_caps that merges the whole factory caps whatever the filter.
query_caps_unfiltered(filter, factory_caps, peers) ==
    MergePeerCaps(peers, filter, 1, {}) \cup factory_caps

\* query_caps: the caps set as the result of the query.
query_caps(filter, factory_caps, peers) ==
    IF filter.given
    THEN MergePeerCaps(peers, filter, 1, {})
            \cup (filter.caps \cap factory_caps)
    ELSE MergePeerCaps(peers, filter, 1, {}) \cup factory_caps

(***************************************************************************)
(* Chain validators.  A chain is the generator's iterators array: a         *)
(* sequence of positions in the factory index; C index d is position d + 1. *)
(* Each validator returns the failing depth, -1 when the chain is accepted. *)
(***************************************************************************)
RECURSIVE validate_chain_caps_from(_, _, _, _, _)
validate_chain_caps_from(index, chain_sink_caps, chain_src_caps, chain, depth) ==
    IF depth < 0 THEN depth
    ELSE LET src_caps == IF depth = 0 THEN chain_sink_caps
                         ELSE index[chain[depth]].src_caps
             sink_caps == IF depth = Len(chain) THEN chain_src_caps
                          ELSE index[chain[depth + 1]].sink_caps
         IN  IF ~gst_caps_can_intersect(src_caps, sink_caps) THEN depth
             ELSE validate_chain_caps_from(index, chain_sink_caps,
                                           chain_src_caps, chain, depth - 1)

\* A caps check that leaves out the boundary to the route's src caps.
validate_chain_caps_inner(index, chain_sink_caps, chain_src_caps, chain) ==
    validate_chain_caps_from(index, chain_sink_caps, chain_src_caps, chain,
                             Len(chain) - 1)

validate_chain_caps(index, chain_sink_caps, chain_src_caps, chain) ==
    validate_chain_caps_from(index, chain_sink_caps, chain_src_caps, chain,
                             Len(chain))

RECURSIVE validate_non_consecutive_from(_, _)
validate_non_consecutive_from(chain, depth) ==
    IF depth < 0 THEN depth
    ELSE IF chain[depth + 1] = chain[depth + 2] THEN depth
    ELSE validate_non_consecutive_from(chain, depth - 1)

validate_non_consecutive_elements(index, sink_caps, src_caps, chain) ==
    validate_non_consecutive_from(chain, Len(chain) - 2)

stage_klasses == <<PARSER, DECODER, CONVERTER, ENCODER>>

\* Whether bit `bit` (a power of two) is set in mask.
BitSet(mask, bit) == (mask \div bit) % 2 = 1

\* A stage search that puts an entry without a stage bit at the first stage.
first_stage_or_parser(mask, stage) ==
    IF \A t \in 1 .. Len(stage_klasses) : ~BitSet(mask, stage_klasses[t])
    THEN 0
    ELSE (CHOOSE t \in 1 .. Len(stage_klasses) :
            /\ BitSet(mask, stage_klasses[t])
            /\ \A u \in 1 .. t - 1 : ~BitSet(mask, stage_klasses[u])) - 1

\* The inner loop of validate_element_order: the first stage whose bit is
\* set, stage_count (4) when none is.
RECURSIVE first_stage(_, _)
first_stage(mask, stage) ==
    IF stage = Len(stage_klasses) THEN stage
    ELSE IF BitSet(mask, stage_klasses[stage + 1]) THEN stage
    ELSE first_stage(mask, stage + 1)

RECURSIVE validate_element_order_from(_, _, _, _)
validate_element_order_from(index, chain, depth, prev_stage) ==
    IF depth < 0 THEN depth
    ELSE LET stage == first_stage(index[chain[depth + 1]].klass_mask, 0)
         IN  IF stage > prev_stage THEN depth
             ELSE validate_element_order_from(index, chain, depth - 1, stage)

validate_element_order(index, sink_caps, src_caps, chain) ==
    validate_element_order_from(index, chain, Len(chain) - 1,
                                Len(stage_klasses) - 1)

\* gst_auto_convert2_validate_chain: the first validator that fails decides.
validate_chain(index, sink_caps, src_caps, chain) ==
    LET d1 == validate_chain_caps(index, sink_caps, src_caps, chain)
        d2 == validate_non_consecutive_elements(index, sink_caps, src_caps, chain)
        d3 == validate_element_order(index, sink_caps, src_caps, chain)
    IN  IF d1 # -1 THEN d1 ELSE IF d2 # -1 THEN d2 ELSE d3

(***************************************************************************)
(* The chain generator: [iterators, init].                                  *)
(***************************************************************************)
MaxChainLength == 4

init_chain_generator(length) ==
    [iterators |-> [i \in 1 .. length |-> 1], init |-> TRUE]

\* An advance in which the last position moves fastest: the last position at
\* or below len - 1 - starting_depth that has a next factory advances, and
\* those behind it go back to the head of the index.
advance_chain_generator_rightmost(iterators, index, starting_depth) ==
    LET len == Len(iterators)
        movable == {i \in 0 .. len - 1 - starting_depth :
                        iterators[i + 1] < Len(index)}
    IN  IF movable = {}
        THEN [ok |-> FALSE, iterators |-> [k \in 1 .. len |-> 1]]
        ELSE LET i == CHOOSE x \in movable : \A y \in movable : x >= y
             IN  [ok |-> TRUE,
                  iterators |->
                     [k \in 1 .. len |->
                        IF k - 1 > i THEN 1
                        ELSE IF k - 1 = i THEN iterators[k] + 1
                        ELSE iterators[k]]]

\* advance_chain_generator: [ok, iterators].  The first position at or above
\* starting_depth that has a next factory advances; those it passed wrap to
\* the head of the index and those below starting_depth are reset to it.
advance_chain_generator(iterators, index, starting_depth) ==
    LET len == Len(iterators)
        movable == {i \in starting_depth .. len - 1 :
                        iterators[i + 1] < Len(index)}
    IN  IF movable = {}
        THEN [ok |-> FALSE,
              iterators |-> [k \in 1 .. len |->
                                IF k - 1 >= starting_depth THEN 1
                                ELSE iterators[k]]]
        ELSE LET i == CHOOSE x \in movable : \A y \in movable : x <= y
             IN  [ok |-> TRUE,
                  iterators |->
                     [k \in 1 .. len |->
                        IF k - 1 < i THEN 1
                        ELSE IF k - 1 = i THEN iterators[k] + 1
                        ELSE iterators[k]]]

\* A generate_next_chain that yields every position of the odometer, without
\* asking validate_chain.
generate_next_chain_unvalidated(index, sink_caps, src_caps, gen, depth) ==
    LET adv == advance_chain_generator(gen.iterators, index, depth)
    IN  IF gen.init
        THEN [ok |-> TRUE, gen |-> [gen EXCEPT !.init = FALSE]]
        ELSE [ok |-> adv.ok,
              gen |-> [iterators |-> adv.iterators, init |-> FALSE]]

\* A generate_next_chain that advances from the failing depth itself, not
\* from the position below it.
RECURSIVE generate_next_chain_overshoot(_, _, _, _, _)
generate_next_chain_overshoot(index, sink_caps, src_caps, gen, depth) ==
    LET adv == advance_chain_generator(gen.iterators, index, depth)
        its == IF gen.init THEN gen.iterators ELSE adv.iterators
        d == validate_chain(index, sink_caps, src_caps, its)
    IN  IF ~gen.init /\ ~adv.ok THEN [ok |-> FALSE, gen |-> gen]
        ELSE IF d < 0
             THEN [ok |-> TRUE, gen |-> [iterators |-> its, init |-> FALSE]]
             ELSE generate_next_chain_overshoot(index, sink_caps, src_caps,
                      [iterators |-> its, init |-> FALSE], d)

\* generate_next_chain: [ok, gen]; ok is the gboolean it returns.
RECURSIVE generate_next_chain_loop(_, _, _, _, _)
generate_next_chain_loop(index, sink_caps, src_caps, gen, depth) ==
    LET adv == advance_chain_generator(gen.iterators, index, depth)
        its == IF gen.init THEN gen.iterators ELSE adv.iterators
        d == validate_chain(index, sink_caps, src_caps, its)
    IN  IF ~gen.init /\ ~adv.ok THEN [ok |-> FALSE, gen |-> gen]
        ELSE IF d < 0
             THEN [ok |-> TRUE, gen |-> [iterators |-> its, init |-> FALSE]]
             ELSE generate_next_chain_loop(index, sink_caps, src_caps,
                      [iterators |-> its, init |-> FALSE],
                      IF d > 0 THEN d - 1 ELSE d)

generate_next_chain(index, sink_caps, src_caps, gen) ==
    IF index = <<>> THEN [ok |-> FALSE, gen |-> gen]
    ELSE generate_next_chain_loop(index, sink_caps, src_caps, gen, 0)

(***************************************************************************)
(* The cache of test elements.  The cache maps a factory (its position in   *)
(* the index) to its list of instances, each [id, in_use]: id is the number *)
(* in the instance's name (create_test_element), in_use the qdata of        *)
(* in_use_quark.  An element is <<factory, id>>.                            *)
(***************************************************************************)

\* A get_test_element that takes the first instance of the factory, in use
\* or not.
get_test_element_first(cache, factory) ==
    IF cache[factory] # <<>>
    THEN [element |-> <<factory, cache[factory][1].id>>,
          cache |-> [cache EXCEPT ![factory][1].in_use = TRUE]]
    ELSE [element |-> <<factory, 0>>,
          cache |-> [cache EXCEPT
                        ![factory] = <<[id |-> 0, in_use |-> TRUE]>>]]

\* get_test_element: [element, cache].  The first instance that is not in
\* use, or a new one, prepended to the factory's list; it is marked in use.
get_test_element(cache, factory) ==
    LET factory_elements == cache[factory]
        idle == {k \in 1 .. Len(factory_elements) :
                    ~factory_elements[k].in_use}
    IN  IF idle # {}
        THEN LET k == CHOOSE x \in idle : \A y \in idle : x <= y
             IN  [element |-> <<factory, factory_elements[k].id>>,
                  cache |-> [cache EXCEPT ![factory][k].in_use = TRUE]]
        ELSE [element |-> <<factory, Len(factory_elements)>>,
              cache |-> [cache EXCEPT ![factory] =
                            <<[id |-> Len(factory_elements),
                               in_use |-> TRUE]>> \o factory_elements]]

\* The loop of lines 1203-1219 of try_chain, from position i (counted from
\* 1) to the position whose link failed or the last: [cache, elements].
RECURSIVE AcquireElements(_, _, _, _, _)
AcquireElements(cache, chain, i, acquired, els) ==
    IF i > acquired THEN [cache |-> cache, elements |-> els]
    ELSE AcquireElements(get_test_element(cache, chain[i]).cache, chain,
                         i + 1, acquired,
                         Append(els, get_test_element(cache, chain[i]).element))

\* Lines 1262-1269: the in_use mark is taken off every element fetched.
ReleaseElements(cache, els) ==
    [factory \in DOMAIN cache |->
        [k \in 1 .. Len(cache[factory]) |->
            IF \E i \in 1 .. Len(els) :
                    els[i] = <<factory, cache[factory][k].id>>
            THEN [cache[factory][k] EXCEPT !.in_use = FALSE]
            ELSE cache[factory][k]]]

\* The numbers of elements try_chain may have fetched for a chain of `length`
\* positions: all of them, or those up to position i, 1 <= i < length, when
\* gst_pad_link_full failed there (lines 1213-1218).
LinkOutcomes(length) ==
    IF length = 1 THEN {1} ELSE 2 .. length

\* try_chain, as far as the cache goes: [cache, elements].
try_chain_cache(cache, chain, acquired) ==
    [cache |-> ReleaseElements(
                  AcquireElements(cache, chain, 1, acquired, <<>>).cache,
                  AcquireElements(cache, chain, 1, acquired, <<>>).elements),
     elements |-> AcquireElements(cache, chain, 1, acquired, <<>>).elements]

(***************************************************************************)
(* The video policy (gstautovideoconvert2.c).  A format f carries an image  *)
(* size when it is a raw video format with width and height; the formats of *)
(* the model are numbers, and a format f of SizedFormats is raw video of    *)
(* ImageSide(f) x ImageSide(f) pixels; the other numbers are formats        *)
(* without an image size.  The structures of a caps are in the order of     *)
(* their numbers.  No format carries a frame rate.                          *)
(***************************************************************************)
INT_MAX == 2147483647
INT_MIN == (-INT_MAX) - 1

SizedFormats == {0, 1, 2, 9}

\* Formats 1, 2 and 9 are f pixels wide and high; format 0 is another raw
\* format of 2 x 2 pixels.
ImageSide(f) == IF f = 0 THEN 2 ELSE f

\* get_caps_image_size: [ok, size], size the <<width, height>> of the first
\* structure that has one.
get_caps_image_size(caps) ==
    LET sized == caps \cap SizedFormats
    IN  IF sized = {} THEN [ok |-> FALSE, size |-> <<0, 0>>]
        ELSE [ok |-> TRUE, size |-> <<ImageSide(FirstFormat(sized)),
                                      ImageSide(FirstFormat(sized))>>]

\* get_caps_frame_rate: no structure of the model has a framerate field.
get_caps_frame_rate(caps) == [ok |-> FALSE, num |-> 0, den |-> 0]

\* g_malloc0 of the private data in gst_auto_video_convert2_init.
gst_auto_video_convert2_init ==
    [min_sink_image_size |-> <<0, 0>>, max_sink_image_size |-> <<0, 0>>]

\* The loop body of gst_auto_video_convert2_begin_building_graph, over the
\* sink pads from position i on; acc is <<min_size, max_size>>.
RECURSIVE SnapshotLoop(_, _, _)
SnapshotLoop(sink_caps, i, acc) ==
    IF i > Len(sink_caps) THEN acc
    ELSE LET r == get_caps_image_size(sink_caps[i])
             size == r.size
             min_size == acc[1]
             max_size == acc[2]
         IN  IF r.ok
             THEN SnapshotLoop(sink_caps, i + 1,
                    << IF size[1] < min_size[1] /\ size[2] < min_size[2]
                       THEN size ELSE min_size,
                       IF size[1] > max_size[1] /\ size[2] > max_size[2]
                       THEN size ELSE max_size >>)
             ELSE SnapshotLoop(sink_caps, i + 1, acc)

\* gst_auto_video_convert2_begin_building_graph: the new private data, from
\* the current caps of the sink pads (a sequence, in pad order).
gst_auto_video_convert2_begin_building_graph(sink_caps) ==
    LET r == SnapshotLoop(sink_caps, 1,
                          << <<INT_MAX, INT_MAX>>, <<INT_MIN, INT_MIN>> >>)
    IN  [min_sink_image_size |-> r[1], max_sink_image_size |-> r[2]]

gst_auto_video_convert2_validate_transform_route(pv, sink_caps, src_caps) ==
    LET max_size == pv.max_sink_image_size
        sink == get_caps_image_size(sink_caps)
        src == get_caps_image_size(src_caps)
        sink_size == sink.size
        src_size == src.size
    IN  IF sink.ok /\ src.ok /\ max_size[1] # INT_MIN
        THEN IF /\ max_size[1] > src_size[1]
                /\ max_size[2] > src_size[2]
                /\ (sink_size[1] < src_size[1] \/ sink_size[2] < src_size[2])
             THEN FALSE
             ELSE IF max_size[1] < src_size[1] /\ max_size[2] < src_size[2]
             THEN IF src_size[1] < sink_size[1] \/ src_size[2] < sink_size[2]
                  THEN FALSE
                  ELSE IF \/ max_size[1] > sink_size[1]
                          \/ max_size[2] > sink_size[2]
                  THEN FALSE
                  ELSE TRUE
             ELSE TRUE
        ELSE TRUE

\* One side of gst_auto_video_convert2_cost_transformation_step.  The sizes
\* of the model keep width * height * num far below 2^31.
SideCost(caps) ==
    LET fr == get_caps_frame_rate(caps)
        num == IF fr.ok THEN fr.num ELSE 30
        den == IF fr.ok THEN fr.den ELSE 1
        r == get_caps_image_size(caps)
    IN  IF r.ok THEN (r.size[1] * r.size[2] * num) \div den ELSE 0

gst_auto_video_convert2_cost_transformation_step(step) ==
    LET cost == SideCost(step.src_caps) + SideCost(step.sink_caps)
    IN  IF cost # 0 THEN U32(cost \div 65536, cost % 65536) ELSE U32(0, 1)

(***************************************************************************)
(* Testing and costing a chain.  The element `ac` is a record               *)
(*   [klass, priv, factory_index]                                           *)
(* klass "GstAutoVideoConvert2" has the video policy's hooks, klass         *)
(* "GstAutoConvert2" the class defaults.                                    *)
(***************************************************************************)

\* The caps the sink pad of the k-th test element answers a caps query with:
\* a transform element accepts its template sink caps as long as it can
\* produce something the element (or test_sink_pad) behind it accepts.
RECURSIVE ChainQueryCaps(_, _, _, _)
ChainQueryCaps(index, chain, k, src_caps) ==
    LET down == IF k = Len(chain) THEN src_caps
                ELSE ChainQueryCaps(index, chain, k + 1, src_caps)
    IN  IF gst_caps_can_intersect(index[chain[k]].src_caps, down)
        THEN index[chain[k]].sink_caps
        ELSE {}

\* check_instantiated_chain.
check_instantiated_chain(sink_caps, chain_sink_caps) ==
    gst_caps_can_intersect(chain_sink_caps, sink_caps)

\* gst_pad_send_event (caps) through the linked test elements, from the k-th
\* on: [ok, steps], the steps with their current (fixed) caps; ok is FALSE
\* when an element refuses the caps.
RECURSIVE NegotiateChain(_, _, _, _, _)
NegotiateChain(index, chain, k, in_caps, src_caps) ==
    IF k > Len(chain) THEN [ok |-> TRUE, steps |-> <<>>]
    ELSE LET entry == index[chain[k]]
             down == IF k = Len(chain) THEN src_caps
                     ELSE ChainQueryCaps(index, chain, k + 1, src_caps)
             outs == entry.src_caps \cap down
             ins == in_caps \cap entry.sink_caps
         IN  IF ins = {} \/ outs = {}
             THEN [ok |-> FALSE, steps |-> <<>>]
             ELSE LET out == {FirstFormat(outs)}
                      rest == NegotiateChain(index, chain, k + 1, out, src_caps)
                  IN  [ok |-> rest.ok,
                       steps |-> <<[factory |-> entry.factory,
                                    sink_caps |-> {FirstFormat(ins)},
                                    src_caps |-> out]>> \o rest.steps]

\* A step cost that is 0 for every step.
free_transformation_step(ac, step) == U32(0, 0)

\* klass->cost_transformation_step ? klass->cost_transformation_step (...) : 1
cost_transformation_step(ac, step) ==
    IF ac.klass = "GstAutoVideoConvert2"
    THEN gst_auto_video_convert2_cost_transformation_step(step)
    ELSE U32(0, 1)

RECURSIVE StepsCost(_, _, _)
StepsCost(ac, steps, i) ==
    IF i > Len(steps) THEN U32(0, 0)
    ELSE U32Add(StepsCost(ac, steps, i + 1),
                cost_transformation_step(ac, steps[i]))

\* create_proposal: a ProposalParent is [parent, pad, parent_step].
create_proposal(parent, src_pad, steps) ==
    [parent |-> parent.parent, pad |-> parent.pad,
     parent_step |-> parent.parent_step, src_pad |-> src_pad,
     step_count |-> Len(steps), steps |-> steps, cost |-> U32(0, 0)]

create_costed_proposal_from_instantiated_chain(ac, parent, src_pad, steps) ==
    [create_proposal(parent, src_pad, steps)
        EXCEPT !.cost = StepsCost(ac, steps, 1)]

\* try_chain: <<proposal>>, or <<>> for NULL.
try_chain(ac, chain, parent, sink_caps, src_pad, src_caps) ==
    IF check_instantiated_chain(sink_caps,
            ChainQueryCaps(ac.factory_index, chain, 1, src_caps))
    THEN LET r == NegotiateChain(ac.factory_index, chain, 1, sink_caps,
                                 src_caps)
         IN  IF ~r.ok THEN <<>>
             ELSE <<create_costed_proposal_from_instantiated_chain(
                        ac, parent, src_pad, r.steps)>>
    ELSE <<>>

\* A passthrough test that never succeeds.
try_passthrough_never(parent, sink_caps, src_pad, src_caps) == <<>>

\* try_passthrough: <<proposal>>, or <<>> for NULL; src_caps is what the peer
\* of src_pad answers a caps query with.
try_passthrough(parent, sink_caps, src_pad, src_caps) ==
    IF check_instantiated_chain(sink_caps, src_caps)
    THEN <<create_proposal(parent, src_pad, <<>>)>>
    ELSE <<>>

\* klass->validate_transform_route; the class default accepts every route.
validate_transform_route(ac, sink_caps, src_caps) ==
    IF ac.klass = "GstAutoVideoConvert2"
    THEN gst_auto_video_convert2_validate_transform_route(ac.priv, sink_caps,
                                                          src_caps)
    ELSE TRUE

\* A loop that stops at the first chain that gives a proposal.
RECURSIVE TryFirstChain(_, _, _, _, _, _, _)
TryFirstChain(ac, gen, parent, sink_caps, src_pad, src_caps, acc) ==
    LET r == generate_next_chain(ac.factory_index, sink_caps, src_caps, gen)
        found == try_chain(ac, r.gen.iterators, parent, sink_caps, src_pad,
                           src_caps)
    IN  IF ~r.ok THEN acc
        ELSE IF found # <<>> THEN found \o acc
        ELSE TryFirstChain(ac, r.gen, parent, sink_caps, src_pad, src_caps,
                           acc)

\* The while loop of lines 1312-1318 for one generator: every chain it yields
\* is tried and each proposal is prepended.
RECURSIVE TryAllChains(_, _, _, _, _, _, _)
TryAllChains(ac, gen, parent, sink_caps, src_pad, src_caps, acc) ==
    LET r == generate_next_chain(ac.factory_index, sink_caps, src_caps, gen)
    IN  IF ~r.ok THEN acc
        ELSE TryAllChains(ac, r.gen, parent, sink_caps, src_pad, src_caps,
                try_chain(ac, r.gen.iterators, parent, sink_caps, src_pad,
                          src_caps) \o acc)

\* A for loop that goes one length further than MaxChainLength.
RECURSIVE TryLengthsBeyond(_, _, _, _, _, _)
TryLengthsBeyond(ac, length, parent, sink_caps, src_pad, src_caps) ==
    IF length > MaxChainLength + 1 THEN <<>>
    ELSE LET found == TryAllChains(ac, init_chain_generator(length), parent,
                                   sink_caps, src_pad, src_caps, <<>>)
         IN  IF found # <<>> THEN found
             ELSE TryLengthsBeyond(ac, length + 1, parent, sink_caps, src_pad,
                                   src_caps)

\* The for loop of lines 1308-1320: lengths 1 .. MaxChainLength, as long as
\* nothing was prepended.
RECURSIVE TryLengths(_, _, _, _, _, _)
TryLengths(ac, length, parent, sink_caps, src_pad, src_caps) ==
    IF length > MaxChainLength THEN <<>>
    ELSE LET found == TryAllChains(ac, init_chain_generator(length), parent,
                                   sink_caps, src_pad, src_caps, <<>>)
         IN  IF found # <<>> THEN found
             ELSE TryLengths(ac, length + 1, parent, sink_caps, src_pad,
                             src_caps)

\* generate_transform_route_proposals: the list with what the route yields
\* prepended to it.
generate_transform_route_proposals(ac, parent, sink_caps, src_pad, src_caps, props) ==
    IF ~validate_transform_route(ac, sink_caps, src_caps) THEN props
    ELSE LET pass == try_passthrough(parent, sink_caps, src_pad, src_caps)
         IN  IF pass # <<>> THEN pass \o props
             ELSE TryLengths(ac, 1, parent, sink_caps, src_pad, src_caps)
                    \o props

\* The same while loop (lines 1312-1318), as the list of the chains it
\* tests: [length, chain, found], found what try_chain returned, in the order
\* of the calls.
RECURSIVE TestedChains(_, _, _, _, _, _)
TestedChains(ac, gen, parent, sink_caps, src_pad, src_caps) ==
    LET r == generate_next_chain(ac.factory_index, sink_caps, src_caps, gen)
    IN  IF ~r.ok THEN <<>>
        ELSE <<[length |-> Len(r.gen.iterators), chain |-> r.gen.iterators,
                found |-> try_chain(ac, r.gen.iterators, parent, sink_caps,
                                    src_pad, src_caps)]>>
             \o TestedChains(ac, r.gen, parent, sink_caps, src_pad, src_caps)

\* The for loop of lines 1308-1320 as the list of the chains it tests.
RECURSIVE TestedLengths(_, _, _, _, _, _)
TestedLengths(ac, length, parent, sink_caps, src_pad, src_caps) ==
    IF length > MaxChainLength THEN <<>>
    ELSE LET tested == TestedChains(ac, init_chain_generator(length), parent,
                                    sink_caps, src_pad, src_caps)
         IN  IF \E k \in 1 .. Len(tested) : tested[k].found # <<>>
             THEN tested
             ELSE tested \o TestedLengths(ac, length + 1, parent, sink_caps,
                                          src_pad, src_caps)

\* generate_transform_route_proposals as the list of what it tests: the
\* passthrough (length 0) first, then the chains; empty when the route is
\* refused.
route_tests(ac, parent, sink_caps, src_pad, src_caps) ==
    IF ~validate_transform_route(ac, sink_caps, src_caps) THEN <<>>
    ELSE LET pass == try_passthrough(parent, sink_caps, src_pad, src_caps)
         IN  <<[length |-> 0, chain |-> <<>>, found |-> pass]>>
             \o (IF pass # <<>> THEN <<>>
                 ELSE TestedLengths(ac, 1, parent, sink_caps, src_pad,
                                    src_caps))

(***************************************************************************)
(* Proposal generation.  Pads are named by their position in the element's  *)
(* pad list; sink_caps[i] is the current caps of sink pad i ({} when it has *)
(* none) and peer_caps[o] what the peer of src pad o answers a caps query   *)
(* with.  A proposal's parent is its position in the returned list; the pad *)
(* of a branch proposal is -1 (NULL).                                       *)
(***************************************************************************)

\* A check that looks at the parent proposal alone, not at its ancestors.
AttachedToParentOnly(props, i, src_pad) ==
    i # 0 /\ props[i].src_pad = src_pad

\* Lines 1338-1340: src_pad is the src pad of the proposal at position i or
\* of one of its ancestors.
RECURSIVE AttachedToParent(_, _, _)
AttachedToParent(props, i, src_pad) ==
    IF i = 0 THEN FALSE
    ELSE props[i].src_pad = src_pad
            \/ AttachedToParent(props, props[i].parent, src_pad)

\* The for loop of lines 1343-1355, from step i (counted from 0) on.
RECURSIVE BranchStepsLoop(_, _, _, _, _, _, _)
BranchStepsLoop(ac, props, parent, src_pad, src_caps, i, acc) ==
    IF i = props[parent].step_count THEN acc
    ELSE BranchStepsLoop(ac, props, parent, src_pad, src_caps, i + 1,
            generate_transform_route_proposals(ac,
                [parent |-> parent, pad |-> -1, parent_step |-> i],
                props[parent].steps[i + 1].src_caps, src_pad, src_caps, acc))

\* generate_branch_proposals for the parent at position `parent` of props.
generate_branch_proposals(ac, props, parent, src_pad, src_caps, acc) ==
    IF AttachedToParent(props, parent, src_pad) THEN acc
    ELSE BranchStepsLoop(ac, props, parent, src_pad, src_caps, 0, acc)

\* Lines 1373-1396: the direct proposals, src pads in the outer loop and sink
\* pads in the inner one; (o, i) is the pair to do next.
RECURSIVE DirectLoop(_, _, _, _, _, _, _, _)
DirectLoop(ac, sink_caps, n, peer_caps, m, o, i, yield) ==
    IF o = m THEN yield
    ELSE IF i = n
         THEN DirectLoop(ac, sink_caps, n, peer_caps, m, o + 1, 0, yield)
         ELSE DirectLoop(ac, sink_caps, n, peer_caps, m, o, i + 1,
                generate_transform_route_proposals(ac,
                    [parent |-> 0, pad |-> i, parent_step |-> 0],
                    sink_caps[i], o, peer_caps[o], yield))

\* Lines 1406-1414 for one generation: prev_yield occupies the positions
\* base + 1 .. base + count of props; (o, j) is the pair to do next.
RECURSIVE BranchLoop(_, _, _, _, _, _, _, _, _)
BranchLoop(ac, props, base, count, peer_caps, m, o, j, yield) ==
    IF o = m THEN yield
    ELSE IF j > count
         THEN BranchLoop(ac, props, base, count, peer_caps, m, o + 1, 1, yield)
         ELSE BranchLoop(ac, props, base, count, peer_caps, m, o, j + 1,
                generate_branch_proposals(ac, props, base + j, o, peer_caps[o],
                                          yield))

\* The while loop of lines 1398-1415.
RECURSIVE YieldLoop(_, _, _, _, _)
YieldLoop(ac, peer_caps, m, props, proposal_yield) ==
    IF proposal_yield = <<>> THEN props
    ELSE LET all == props \o proposal_yield
         IN  YieldLoop(ac, peer_caps, m, all,
                BranchLoop(ac, all, Len(props), Len(proposal_yield), peer_caps,
                           m, 0, 1, <<>>))

generate_proposals(ac, sink_caps, n, peer_caps, m) ==
    YieldLoop(ac, peer_caps, m, <<>>,
              DirectLoop(ac, sink_caps, n, peer_caps, m, 0, 0, <<>>))

(***************************************************************************)
(* The live graph, as far as the pads of the bin see it:                    *)
(*   sink_target[i]  what the sink ghost pad i targets: "none", "tee",      *)
(*                   "chain" (the head of a chain) or "fakesink";           *)
(*   src_target[o]   [linked, feed]: whether the src ghost pad o has a      *)
(*                   target, and the sink pads whose data reaches it (none  *)
(*                   when what it is linked to hangs off no sink pad);      *)
(*   children        the number of elements in the bin.                     *)
(***************************************************************************)
NoSrcTarget == [linked |-> FALSE, feed |-> {}]

\* The graph of a new element, and the graph clear_graph leaves: every ghost
\* pad released, every child removed.
clear_graph(n, m) ==
    [sink_target |-> [i \in 0 .. n - 1 |-> "none"],
     src_target |-> [o \in 0 .. m - 1 |-> NoSrcTarget],
     children |-> 0]

\* set_ghost_pad_target_no_reconfigure on a sink ghost pad: the link of the
\* internal pad fails (GST_PAD_LINK_WAS_LINKED) when the pad has a target.
SetSinkTarget(g, pad, target) ==
    IF g.sink_target[pad] = "none"
    THEN [g EXCEPT !.sink_target[pad] = target]
    ELSE g

\* ... and on a src ghost pad.
SetSrcTarget(g, pad, feed) ==
    IF ~g.src_target[pad].linked
    THEN [g EXCEPT !.src_target[pad] = [linked |-> TRUE, feed |-> feed]]
    ELSE g

\* The first loop of instantiate_proposals (lines 1515-1552), from the k-th
\* selected proposal on.  tees is sink_pad_tees, a pad mapped to "absent",
\* "null" (in the table without a tee) or "tee"; the result is
\* [tees, g], g the graph.
RECURSIVE IndexChildren(_, _, _, _, _)
IndexChildren(props, sel, k, tees, g) ==
    IF k > Len(sel) THEN [tees |-> tees, g |-> g]
    ELSE LET p == props[sel[k]]
             pad == p.pad
         IN  IF p.parent # 0
             THEN IndexChildren(props, sel, k + 1, tees, g)
             ELSE IF (tees[pad] # "absent" \/ p.step_count = 0)
                        /\ tees[pad] # "tee"
             THEN IndexChildren(props, sel, k + 1,
                    [tees EXCEPT ![pad] = "tee"],
                    SetSinkTarget([g EXCEPT !.children = @ + 1],
                                  pad, "tee"))
             ELSE IndexChildren(props, sel, k + 1,
                    [tees EXCEPT ![pad] = IF @ = "tee" THEN "tee" ELSE "null"],
                    g)

\* A step_children that is always empty.
NoStepChildren(props, sel, k, j) == FALSE

\* step_children[j] of the k-th selected proposal is not empty.
HasStepChildren(props, sel, k, j) ==
    \E c \in 1 .. Len(sel) :
        props[sel[c]].parent = sel[k] /\ props[sel[c]].parent_step = j

\* The second loop (lines 1555-1594): the elements and step tees added to
\* the bin.
CreatedElements(props, sel) ==
    LET Count(k) == props[sel[k]].step_count
                    + Cardinality({j \in 0 .. props[sel[k]].step_count - 1 :
                                      HasStepChildren(props, sel, k, j)})
        RECURSIVE Sum(_)
        Sum(k) == IF k > Len(sel) THEN 0 ELSE Count(k) + Sum(k + 1)
    IN  Sum(1)

\* tee_elements[parent_step] of the parent of proposal i was made by the
\* second loop: the parent is selected.
ParentTee(props, sel, i) ==
    \E k \in 1 .. Len(sel) : sel[k] = props[i].parent

\* The sink pad the data of proposal i comes from, {} when the chain it
\* hangs off is not connected to one: live[pad] tells whether this pass
\* connected the sink ghost pad to what it built for it.
RECURSIVE ProposalFeed(_, _, _, _)
ProposalFeed(props, sel, live, i) ==
    IF props[i].parent = 0
    THEN IF live[props[i].pad] THEN {props[i].pad} ELSE {}
    ELSE IF ParentTee(props, sel, i)
         THEN ProposalFeed(props, sel, live, props[i].parent)
         ELSE {}

\* The third loop (lines 1597-1631), from the k-th selected proposal on.
RECURSIVE LinkChains(_, _, _, _, _, _)
LinkChains(props, sel, k, tees, live, g) ==
    IF k > Len(sel) THEN g
    ELSE LET i == sel[k]
             p == props[i]
             src_tee == IF p.parent # 0 THEN ParentTee(props, sel, i)
                        ELSE tees[p.pad] = "tee"
             chain_sink_pad == p.step_count > 0
             feed == ProposalFeed(props, sel, live, i)
         IN  IF src_tee
             THEN LinkChains(props, sel, k + 1, tees, live,
                             SetSrcTarget(g, p.src_pad, feed))
             ELSE IF p.parent = 0 /\ chain_sink_pad
             THEN LinkChains(props, sel, k + 1, tees, live,
                    SetSrcTarget(SetSinkTarget(g, p.pad, "chain"),
                                 p.src_pad, feed))
             ELSE LinkChains(props, sel, k + 1, tees, live, g)

\* The fourth loop (lines 1634-1643), from sink pad i on.
RECURSIVE AttachFakesinks(_, _, _, _)
AttachFakesinks(tees, n, i, g) ==
    IF i = n THEN g
    ELSE IF tees[i] = "absent"
         THEN AttachFakesinks(tees, n, i + 1,
                SetSinkTarget([g EXCEPT !.children = @ + 1], i, "fakesink"))
         ELSE AttachFakesinks(tees, n, i + 1, g)

\* instantiate_proposals: the graph after it, n the number of sink pads.
instantiate_proposals(props, sel, n, g) ==
    LET live == [i \in 0 .. n - 1 |-> g.sink_target[i] = "none"]
        r == IndexChildren(props, sel, 1, [i \in 0 .. n - 1 |-> "absent"],
                           g)
        g2 == [r.g EXCEPT !.children = @ + CreatedElements(props, sel)]
    IN  AttachFakesinks(r.tees, n, 0,
                        LinkChains(props, sel, 1, r.tees, live, g2))

(***************************************************************************)
(* What instantiate_proposals adds to a cleared graph, pad by pad.  A pad   *)
(* is [kind, owner, step, port]: owner is the proposal (its position in the *)
(* generated list) the pad's element was made for, 0 for a ghost pad, a     *)
(* sink-pad tee and a fakesink; step is the step of that proposal, or the   *)
(* number of the ghost pad; port numbers the request pads of a tee in the   *)
(* order get_element_pad (tee, "src_%u") asked for them.                     *)
(***************************************************************************)
GraphPad(kind, owner, step, port) ==
    [kind |-> kind, owner |-> owner, step |-> step, port |-> port]

Link(from, to) == [from |-> from, to |-> to]

\* src_pad of the second loop after step j of the k-th selected proposal:
\* the first request pad of the step's tee when it has one, the src pad of
\* the element otherwise.
StepSrcPad(props, sel, k, j) ==
    IF HasStepChildren(props, sel, k, j)
    THEN GraphPad("tee_src", sel[k], j, 0)
    ELSE GraphPad("elem_src", sel[k], j, 0)

\* The links the second loop (lines 1555-1594) makes for the k-th selected
\* proposal.
ChainLinks(props, sel, k) ==
    LET steps == 0 .. props[sel[k]].step_count - 1
    IN  {Link(StepSrcPad(props, sel, k, j - 1),
              GraphPad("elem_sink", sel[k], j, 0)) : j \in steps \ {0}}
        \cup
        {Link(GraphPad("elem_src", sel[k], j, 0),
              GraphPad("tee_sink", sel[k], j, 0)) :
            j \in {s \in steps : HasStepChildren(props, sel, k, s)}}

\* src_tee of the third loop for the k-th selected proposal, as <<owner,
\* step>>; <<>> for NULL.
SrcTee(props, sel, tees, k) ==
    LET p == props[sel[k]]
    IN  IF p.parent # 0
        THEN IF ParentTee(props, sel, sel[k])
             THEN <<p.parent, p.parent_step>>
             ELSE <<>>
        ELSE IF tees[p.pad] = "tee" THEN <<0, p.pad>> ELSE <<>>

\* A src_tee_pad that is always the first request pad of src_tee.
SrcTeePadFirst(props, sel, tees, k) ==
    GraphPad("tee_src", SrcTee(props, sel, tees, k)[1],
             SrcTee(props, sel, tees, k)[2], 0)

\* src_tee_pad: the next request pad of src_tee.  The second loop took pad 0
\* of every step tee; the third loop asks in the order of the selected list.
SrcTeePad(props, sel, tees, k) ==
    LET t == SrcTee(props, sel, tees, k)
        earlier == Cardinality({c \in 1 .. k - 1 :
                                    SrcTee(props, sel, tees, c) = t})
    IN  GraphPad("tee_src", t[1], t[2],
                 earlier + (IF t[1] = 0 THEN 0 ELSE 1))

\* The links the third loop (lines 1597-1631) makes for the k-th selected
\* proposal.
OuterLinks(props, sel, tees, k) ==
    LET p == props[sel[k]]
        src_tee == SrcTee(props, sel, tees, k) # <<>>
        chain_sink_pad == GraphPad("elem_sink", sel[k], 0, 0)
        chain_src_pad == StepSrcPad(props, sel, k, p.step_count - 1)
        ghost_src == GraphPad("ghost_src", 0, p.src_pad, 0)
    IN  IF src_tee /\ p.step_count > 0
        THEN {Link(SrcTeePad(props, sel, tees, k), chain_sink_pad),
              Link(chain_src_pad, ghost_src)}
        ELSE IF p.parent = 0 /\ p.step_count > 0
        THEN {Link(GraphPad("ghost_sink", 0, p.pad, 0), chain_sink_pad),
              Link(chain_src_pad, ghost_src)}
        ELSE IF src_tee
        THEN {Link(SrcTeePad(props, sel, tees, k), ghost_src)}
        ELSE {}

\* The elements, tees, fakesinks and links of the bin after
\* instantiate_proposals ran on a cleared graph with n sink pads.
Netlist(props, sel, n) ==
    LET tees == IndexChildren(props, sel, 1, [i \in 0 .. n - 1 |-> "absent"],
                              clear_graph(n, 0)).tees
        sels == 1 .. Len(sel)
    IN  [elements |->
            {[owner |-> sel[k], step |-> j,
              factory |-> props[sel[k]].steps[j + 1].factory] :
                <<k, j>> \in {x \in sels \X (0 .. MaxChainLength - 1) :
                                x[2] < props[sel[x[1]]].step_count}},
         tees |->
            {<<0, i>> : i \in {x \in 0 .. n - 1 : tees[x] = "tee"}}
            \cup
            {<<sel[x[1]], x[2]>> :
                x \in {y \in sels \X (0 .. MaxChainLength - 1) :
                         /\ y[2] < props[sel[y[1]]].step_count
                         /\ HasStepChildren(props, sel, y[1], y[2])}},
         fakesinks |-> {i \in 0 .. n - 1 : tees[i] = "absent"},
         links |->
            {Link(GraphPad("ghost_sink", 0, i, 0),
                  GraphPad("tee_sink", 0, i, 0)) :
                i \in {x \in 0 .. n - 1 : tees[x] = "tee"}}
            \cup
            {Link(GraphPad("ghost_sink", 0, i, 0),
                  GraphPad("fakesink_sink", 0, i, 0)) :
                i \in {x \in 0 .. n - 1 : tees[x] = "absent"}}
            \cup UNION {ChainLinks(props, sel, k) : k \in sels}
            \cup UNION {OuterLinks(props, sel, tees, k) : k \in sels}]

\* build_graph, lines 1676-1680: the graph after it.  (The flags it unsets
\* are pad state, kept by the caller.)
build_graph(ac, sink_caps, n, peer_caps, m, g) ==
    LET props == generate_proposals(ac, sink_caps, n, peer_caps, m)
    IN  instantiate_proposals(props, select_proposals(props, m), n, g)

(***************************************************************************)
(* Spec: an autovideoconvert2 element with two sink pads and two src pads.  *)
(* Each sink pad has its upstream streaming thread, which calls the pad's   *)
(* chain, event and query functions one after the other; an EOS that left   *)
(* the graph for src pad o is handled by gst_auto_convert2_src_proxy_event  *)
(* on whatever thread carries it, the process Src(o).                       *)
(***************************************************************************)
SinkPads == {0, 1}
SrcPads == {0, 1}

Sink(i) == <<"sink", i>>
Src(o) == <<"src", o>>
Procs == {Sink(i) : i \in SinkPads} \cup {Src(o) : o \in SrcPads}
NoOwner == <<>>

\* The registry has one factory the video policy's element_filter lets
\* through, a scaler from format 2 to format 1.
Registry ==
    <<[name |-> "videoscale", sinks |-> 1, srcs |-> 1,
       sink_caps |-> {2}, src_caps |-> {1},
       klass |-> {"Filter", "Converter", "Video"}]>>

\* The formats the upstream elements send caps events of.
Formats == {1, 2}

\* What the peers of the src pads answer a caps query with.
PeerCaps == [o \in SrcPads |-> {o + 1}]

MaxCapsEvents == 3      \* caps events sent by upstream in one behaviour
MaxReconfigures == 1    \* reconfigure events sent by downstream

\* The element as build_graph sees it.
Element(pv) ==
    [klass |-> "GstAutoVideoConvert2", priv |-> pv,
     factory_index |-> index_factories(Registry)]

CapsSeq(caps) == [k \in 1 .. Cardinality(SinkPads) |-> caps[k - 1]]

\* The proposals a planning pass generates and selects with private data pv
\* and sink caps `caps`.
Plan(pv, caps) ==
    LET props == generate_proposals(Element(pv), caps, Cardinality(SinkPads),
                                    PeerCaps, Cardinality(SrcPads))
    IN  [props |-> props,
         sel |-> select_proposals(props, Cardinality(SrcPads))]

\* Every value the private data and the sink caps take, and the plan of each
\* pair (build_graph is a function of them).
CapsValues == [SinkPads -> {{}} \cup {{f} : f \in Formats}]

PrivValues ==
    {gst_auto_video_convert2_init}
        \cup {gst_auto_video_convert2_begin_building_graph(CapsSeq(c)) :
                c \in CapsValues}

PlanTable == [pv \in PrivValues |-> [c \in CapsValues |-> Plan(pv, c)]]

\* The same for an element that is left with its first m src pads.
PlanFor(m, pv, caps) ==
    LET props == generate_proposals(Element(pv), caps, Cardinality(SinkPads),
                                    PeerCaps, m)
    IN  [props |-> props, sel |-> select_proposals(props, m)]

\* The plan of every number of src pads, private data and sink caps.
PlanTableFor ==
    [pv \in PrivValues |->
        [k \in (0 .. Cardinality(SrcPads)) \X CapsValues |->
            PlanFor(k[1], pv, k[2])]]

\* build_graph on the live graph g.
BuildGraph(pv, caps, g) ==
    instantiate_proposals(
        PlanTableFor[pv][<<Cardinality(srcpads), caps>>].props,
        PlanTableFor[pv][<<Cardinality(srcpads), caps>>].sel,
        Cardinality(SinkPads), g)

ClearGraph == clear_graph(Cardinality(SinkPads), Cardinality(SrcPads))

NoEvent == [caps |-> {}, described |-> FALSE]

AllHaveCaps(caps) == \A i \in SinkPads : caps[i] # {}

ElemInit ==
    /\ pc = [p \in Procs |-> "idle"]
    /\ event = [i \in SinkPads |-> NoEvent]
    /\ sink_pads_it = [i \in SinkPads |-> 0]
    /\ awaiting_drain = [i \in SinkPads |-> FALSE]
    /\ state = "IDLE"
    /\ lock = NoOwner
    /\ sink_block_cond = {}
    /\ pending_drain_pads = <<>>
    /\ need_reconfigure = [o \in SrcPads |-> FALSE]
    /\ current_caps = [i \in SinkPads |-> {}]
    /\ graph = ClearGraph
    /\ sink_eos = {}
    /\ eos_in_flight = {}
    /\ priv = gst_auto_video_convert2_init
    /\ caps_events = 0
    /\ reconfigures = 0
    /\ srcpads = SrcPads
    /\ began = [i \in SinkPads |-> "none"]
    /\ unacked = {}
    /\ entered_empty = {}

\* SpecSelect is not running.
SelOff ==
    /\ proposals = <<>>
    /\ selected = <<>>
    /\ selSrcCount = 0
    /\ selPc = "off"

\* SpecChain is not running.
ChainOff ==
    /\ genIndex = <<>>
    /\ genRoute = <<>>
    /\ generator = <<>>
    /\ genChain = <<>>
    /\ genPc = "off"
    /\ test_element_cache = <<>>
    /\ elements = <<>>

\* SpecPlan is not running.
PlanOff ==
    /\ planIn = <<>>
    /\ planOut = <<>>
    /\ planPc = "off"

Init == SelOff /\ ChainOff /\ PlanOff /\ ElemInit

(***************************************************************************)
(* The host: upstream threads calling into the sink pads, downstream        *)
(* elements asking for a reconfiguration.                                   *)
(***************************************************************************)

\* What an operation that begins in build state st has seen of the state:
\* "busy" when it begins in DRAINING or REBUILDING, and "passed" once
\* check_sink_block has read IDLE for it with the lock held.
BeganIn(st) == IF st = "IDLE" THEN "none" ELSE "busy"

Passed(seen) == IF seen = "busy" THEN "passed" ELSE seen

\* Upstream pushes a buffer into sink pad i, which has caps:
\* gst_auto_convert2_chain is entered.
StartChain(i) ==
    /\ pc[Sink(i)] = "idle"
    /\ current_caps[i] # {}
    /\ pc' = [pc EXCEPT ![Sink(i)] = "chain_block"]
    /\ began' = [began EXCEPT ![i] = BeganIn(state)]
    /\ UNCHANGED <<offVars, entered_empty, unacked, srcpads, locals, state, lock, sink_block_cond, pending_drain_pads,
                   need_reconfigure, current_caps, graph, sink_eos,
                   eos_in_flight, priv, caps_events, reconfigures>>

\* Upstream sends a caps event of format f to sink pad i:
\* gst_auto_convert2_sink_event is entered.
StartCapsEvent(i, f) ==
    /\ pc[Sink(i)] = "idle"
    /\ caps_events < MaxCapsEvents
    /\ caps_events' = caps_events + 1
    /\ event' = [event EXCEPT ![i] = [caps |-> {f}, described |-> FALSE]]
    /\ pc' = [pc EXCEPT ![Sink(i)] = "event_block"]
    /\ began' = [began EXCEPT ![i] = BeganIn(state)]
    /\ UNCHANGED <<offVars, entered_empty, unacked, srcpads, sink_pads_it, awaiting_drain, state, lock, sink_block_cond,
                   pending_drain_pads, need_reconfigure, current_caps, graph,
                   sink_eos, eos_in_flight, priv, reconfigures>>

\* Upstream queries sink pad i: gst_auto_convert2_sink_query is entered.
StartQuery(i) ==
    /\ pc[Sink(i)] = "idle"
    /\ pc' = [pc EXCEPT ![Sink(i)] = "query_block"]
    /\ began' = [began EXCEPT ![i] = BeganIn(state)]
    /\ UNCHANGED <<offVars, entered_empty, unacked, srcpads, locals, state, lock, sink_block_cond, pending_drain_pads,
                   need_reconfigure, current_caps, graph, sink_eos,
                   eos_in_flight, priv, caps_events, reconfigures>>

\* Downstream of src pad o sends a reconfigure event: the pad latches
\* GST_PAD_FLAG_NEED_RECONFIGURE.
Reconfigure(o) ==
    /\ o \in srcpads
    /\ reconfigures < MaxReconfigures
    /\ ~need_reconfigure[o]
    /\ reconfigures' = reconfigures + 1
    /\ need_reconfigure' = [need_reconfigure EXCEPT ![o] = TRUE]
    /\ UNCHANGED <<offVars, entered_empty, unacked, srcpads, began, pc, locals, state, lock, sink_block_cond,
                   pending_drain_pads, current_caps, graph, sink_eos,
                   eos_in_flight, priv, caps_events>>

(***************************************************************************)
(* check_sink_block.                                                        *)
(***************************************************************************)
AfterBlock(label) ==
    IF label = "chain_block" THEN "chain_reconfigure"
    ELSE IF label = "event_block" THEN "event_store"
    ELSE "query_run"

WaitOf(label) ==
    IF label = "chain_block" THEN "chain_wait"
    ELSE IF label = "event_block" THEN "event_wait"
    ELSE "query_wait"

BlockOf(label) ==
    IF label = "chain_wait" THEN "chain_block"
    ELSE IF label = "event_wait" THEN "event_block"
    ELSE "query_block"

\* A check_sink_block that does not wait: it takes the lock, reads the state
\* and goes on whatever it read.
check_sink_block_no_wait(i) ==
    /\ pc[Sink(i)] \in {"chain_block", "event_block", "query_block"}
    /\ lock = NoOwner
    /\ pc' = [pc EXCEPT ![Sink(i)] = AfterBlock(pc[Sink(i)])]
    /\ began' = [began EXCEPT ![i] =
                    IF state = "IDLE" THEN Passed(began[i]) ELSE began[i]]
    /\ UNCHANGED <<offVars, entered_empty, unacked, srcpads, locals, state, lock, sink_block_cond,
                   pending_drain_pads, need_reconfigure, current_caps, graph,
                   sink_eos, eos_in_flight, priv, caps_events, reconfigures>>

\* check_sink_block with the lock taken: the state is IDLE and the thread
\* goes on, or it is not and the thread waits on the condition (which
\* releases the lock).
check_sink_block(i) ==
    /\ pc[Sink(i)] \in {"chain_block", "event_block", "query_block"}
    /\ lock = NoOwner
    /\ IF state = "IDLE"
       THEN /\ pc' = [pc EXCEPT ![Sink(i)] = AfterBlock(pc[Sink(i)])]
            /\ began' = [began EXCEPT ![i] = Passed(began[i])]
            /\ UNCHANGED sink_block_cond
       ELSE /\ pc' = [pc EXCEPT ![Sink(i)] = WaitOf(pc[Sink(i)])]
            /\ sink_block_cond' = sink_block_cond \cup {i}
            /\ UNCHANGED began
    /\ UNCHANGED <<offVars, entered_empty, unacked, srcpads, locals, state, lock, pending_drain_pads, need_reconfigure,
                   current_caps, graph, sink_eos, eos_in_flight, priv,
                   caps_events, reconfigures>>

\* g_cond_wait returns without a signal (a spurious wakeup): the thread
\* goes back to take the lock and test the state.
SpuriousWakeup(i) ==
    /\ i \in sink_block_cond
    /\ sink_block_cond' = sink_block_cond \ {i}
    /\ pc' = [pc EXCEPT ![Sink(i)] = BlockOf(pc[Sink(i)])]
    /\ UNCHANGED <<offVars, entered_empty, unacked, srcpads, began, locals, state, lock, pending_drain_pads, need_reconfigure,
                   current_caps, graph, sink_eos, eos_in_flight, priv,
                   caps_events, reconfigures>>

(***************************************************************************)
(* gst_auto_convert2_chain.                                                 *)
(***************************************************************************)
needs_reconfigure == \E o \in srcpads : need_reconfigure[o]

\* Line 523: needs_reconfigure is read, without the lock.
ChainNeedsReconfigure(i) ==
    /\ pc[Sink(i)] = "chain_reconfigure"
    /\ pc' = [pc EXCEPT ![Sink(i)] =
                IF needs_reconfigure THEN "rebuild_enter" ELSE "chain_push"]
    /\ UNCHANGED <<offVars, entered_empty, unacked, srcpads, began, locals, state, lock, sink_block_cond, pending_drain_pads,
                   need_reconfigure, current_caps, graph, sink_eos,
                   eos_in_flight, priv, caps_events, reconfigures>>

\* Line 526: gst_proxy_pad_chain_default hands the buffer to the target of
\* the sink ghost pad.
ChainPush(i) ==
    /\ pc[Sink(i)] = "chain_push"
    /\ pc' = [pc EXCEPT ![Sink(i)] = "idle"]
    /\ began' = [began EXCEPT ![i] = "none"]
    /\ UNCHANGED <<offVars, entered_empty, unacked, srcpads, locals, state, lock, sink_block_cond, pending_drain_pads,
                   need_reconfigure, current_caps, graph, sink_eos,
                   eos_in_flight, priv, caps_events, reconfigures>>

\* enter_build_state: the compare-and-exchange; its failure only warns.
enter_build_state(cur, prev_state, new_state) ==
    IF cur = prev_state THEN new_state ELSE cur

\* begin_rebuilding_graph, lines 1726-1739, under the lock.
BeginRebuildingGraph(i) ==
    /\ pc[Sink(i)] = "rebuild_enter"
    /\ lock = NoOwner
    /\ state' = enter_build_state(state, "IDLE", "DRAINING_GRAPH")
    /\ pending_drain_pads' = <<srcpads>>
    /\ unacked' = IF state = "IDLE" THEN srcpads ELSE unacked
    /\ entered_empty' = IF state = "IDLE" /\ srcpads = {}
                        THEN entered_empty \cup {i}
                        ELSE entered_empty \ {i}
    /\ sink_pads_it' = [sink_pads_it EXCEPT ![i] = 0]
    /\ awaiting_drain' = [awaiting_drain EXCEPT ![i] = FALSE]
    /\ pc' = [pc EXCEPT ![Sink(i)] = "rebuild_send"]
    /\ UNCHANGED <<offVars, srcpads, began, event, lock, sink_block_cond, need_reconfigure,
                   current_caps, graph, sink_eos, eos_in_flight, priv,
                   caps_events, reconfigures>>

\* One turn of the loop of lines 1743-1750, for sink pad sink_pads_it[i]:
\* an EOS is sent into the target the ghost pad has now.  A fakesink keeps
\* it, a target that is already at EOS refuses it, and from a tee or a
\* chain it travels on to every src pad fed by the sink pad.  After the last
\* turn the thread returns to chain (line 526) or, when nothing was sent,
\* goes on to line 1755.
SendEos(i) ==
    /\ pc[Sink(i)] = "rebuild_send"
    /\ LET pad == sink_pads_it[i]
           target == graph.sink_target[pad]
           sent == target # "none"
           awaiting == awaiting_drain[i] \/ sent
           last == pad + 1 = Cardinality(SinkPads)
       IN  /\ IF target \in {"tee", "chain"} /\ pad \notin sink_eos
              THEN eos_in_flight' = eos_in_flight \cup
                      {o \in SrcPads : pad \in graph.src_target[o].feed}
              ELSE UNCHANGED eos_in_flight
           /\ sink_eos' = IF sent THEN sink_eos \cup {pad} ELSE sink_eos
           /\ awaiting_drain' = [awaiting_drain EXCEPT ![i] = awaiting]
           /\ sink_pads_it' = [sink_pads_it EXCEPT ![i] = pad + 1]
           /\ entered_empty' = IF last THEN entered_empty \ {i}
                               ELSE entered_empty
           /\ pc' = [pc EXCEPT ![Sink(i)] =
                        IF ~last THEN "rebuild_send"
                        ELSE IF awaiting THEN "chain_push"
                        ELSE "rebuild_undrained"]
    /\ UNCHANGED <<offVars, unacked, srcpads, began, event, state, lock, sink_block_cond, pending_drain_pads,
                   need_reconfigure, current_caps, graph, priv, caps_events,
                   reconfigures>>

\* Lines 1755-1758: no EOS was sent; the table is destroyed (without the
\* lock) and graph_drained is called.
NothingToDrain(i) ==
    /\ pc[Sink(i)] = "rebuild_undrained"
    /\ pending_drain_pads' = <<>>
    /\ UNCHANGED entered_empty
    /\ pc' = [pc EXCEPT ![Sink(i)] = "drained_enter"]
    /\ UNCHANGED <<offVars, unacked, srcpads, began, locals, state, lock, sink_block_cond, need_reconfigure,
                   current_caps, graph, sink_eos, eos_in_flight, priv,
                   caps_events, reconfigures>>

(***************************************************************************)
(* graph_drained, run by the thread p that found the graph drained: a sink  *)
(* pad's thread (from begin_rebuilding_graph) or an EOS handler.  It holds  *)
(* the lock from its first step to its last; the steps are what the code    *)
(* that reads without the lock can tell apart.                              *)
(***************************************************************************)

\* Lines 1765-1768: the lock, the state change and clear_graph.  The elements
\* go to NULL: what was travelling in them is gone.
GraphDrainedClear(p) ==
    /\ pc[p] = "drained_enter"
    /\ lock = NoOwner
    /\ lock' = p
    /\ unacked' = {}
    /\ state' = enter_build_state(state, "DRAINING_GRAPH", "REBUILDING_GRAPH")
    /\ graph' = ClearGraph
    /\ sink_eos' = {}
    /\ eos_in_flight' = {}
    /\ pc' = [pc EXCEPT ![p] = "drained_build"]
    /\ UNCHANGED <<offVars, entered_empty, srcpads, began, locals, sink_block_cond, pending_drain_pads,
                   need_reconfigure, current_caps, priv, caps_events,
                   reconfigures>>

\* graph_drained with a build_graph that leaves the reconfigure flags as
\* they are.
GraphDrainedBuildKeepsFlags(p) ==
    /\ pc[p] = "drained_build"
    /\ lock = p
    /\ graph' = BuildGraph(priv, current_caps, graph)
    /\ pc' = [pc EXCEPT ![p] = "drained_finish"]
    /\ UNCHANGED <<offVars, entered_empty, unacked, srcpads, began, locals, state, lock,
                   sink_block_cond, pending_drain_pads, need_reconfigure,
                   current_caps, sink_eos, eos_in_flight, priv, caps_events,
                   reconfigures>>

\* Line 1769: build_graph.
GraphDrainedBuild(p) ==
    /\ pc[p] = "drained_build"
    /\ lock = p
    /\ graph' = BuildGraph(priv, current_caps, graph)
    /\ need_reconfigure' = [o \in SrcPads |-> FALSE]
    /\ pc' = [pc EXCEPT ![p] = "drained_finish"]
    /\ UNCHANGED <<offVars, entered_empty, unacked, srcpads, began, locals, state, lock, sink_block_cond, pending_drain_pads,
                   current_caps, sink_eos, eos_in_flight, priv, caps_events,
                   reconfigures>>

\* Lines 1771-1779: back to IDLE, g_cond_signal (which wakes one of the
\* waiting threads, w, when there is one), the table destroyed, the lock
\* released.  A sink pad's thread returns to chain (line 526), a handler to
\* its caller.
GraphDrainedFinish(p) ==
    /\ pc[p] = "drained_finish"
    /\ lock = p
    /\ state' = enter_build_state(state, "REBUILDING_GRAPH", "IDLE")
    /\ pending_drain_pads' = <<>>
    /\ lock' = NoOwner
    /\ IF sink_block_cond = {}
       THEN /\ pc' = [pc EXCEPT ![p] =
                        IF p[1] = "sink" THEN "chain_push" ELSE "idle"]
            /\ UNCHANGED sink_block_cond
       ELSE \E w \in sink_block_cond :
                /\ sink_block_cond' = sink_block_cond \ {w}
                /\ pc' = [pc EXCEPT
                            ![p] = IF p[1] = "sink" THEN "chain_push"
                                   ELSE "idle",
                            ![Sink(w)] = BlockOf(pc[Sink(w)])]
    /\ UNCHANGED <<offVars, entered_empty, unacked, srcpads, began, locals, need_reconfigure, current_caps, graph, sink_eos,
                   eos_in_flight, priv, caps_events, reconfigures>>

(***************************************************************************)
(* gst_auto_convert2_sink_event (a caps event) and _sink_query.             *)
(***************************************************************************)

\* Line 541: gst_pad_store_sticky_event, before the lock is taken.
\* `described` notes whether every sink pad had caps already when the event
\* came.
EventStoreSticky(i) ==
    /\ pc[Sink(i)] = "event_store"
    /\ current_caps' = [current_caps EXCEPT ![i] = event[i].caps]
    /\ event' = [event EXCEPT ![i].described = AllHaveCaps(current_caps)]
    /\ pc' = [pc EXCEPT ![Sink(i)] = "event_caps"]
    /\ UNCHANGED <<offVars, entered_empty, unacked, srcpads, began, sink_pads_it, awaiting_drain, state, lock, sink_block_cond,
                   pending_drain_pads, need_reconfigure, graph, sink_eos,
                   eos_in_flight, priv, caps_events, reconfigures>>

\* Lines 542-556, under the lock: when every sink pad has caps,
\* begin_building_graph and build_graph.
EventCaps(i) ==
    /\ pc[Sink(i)] = "event_caps"
    /\ lock = NoOwner
    /\ IF AllHaveCaps(current_caps)
       THEN /\ priv' = gst_auto_video_convert2_begin_building_graph(
                            CapsSeq(current_caps))
            /\ graph' = BuildGraph(priv', current_caps, graph)
            /\ need_reconfigure' = [o \in SrcPads |-> FALSE]
       ELSE UNCHANGED <<priv, graph, need_reconfigure>>
    /\ pc' = [pc EXCEPT ![Sink(i)] = "event_forward"]
    /\ UNCHANGED <<offVars, entered_empty, unacked, srcpads, began, locals, state, lock, sink_block_cond, pending_drain_pads,
                   current_caps, sink_eos, eos_in_flight, caps_events,
                   reconfigures>>

\* Line 565: gst_pad_event_default.
EventForward(i) ==
    /\ pc[Sink(i)] = "event_forward"
    /\ event' = [event EXCEPT ![i] = NoEvent]
    /\ pc' = [pc EXCEPT ![Sink(i)] = "idle"]
    /\ began' = [began EXCEPT ![i] = "none"]
    /\ UNCHANGED <<offVars, entered_empty, unacked, srcpads, sink_pads_it, awaiting_drain, state, lock, sink_block_cond,
                   pending_drain_pads, need_reconfigure, current_caps, graph,
                   sink_eos, eos_in_flight, priv, caps_events, reconfigures>>

\* Lines 582-585: a query other than a caps query goes to
\* gst_pad_query_default.
QueryRun(i) ==
    /\ pc[Sink(i)] = "query_run"
    /\ pc' = [pc EXCEPT ![Sink(i)] = "idle"]
    /\ began' = [began EXCEPT ![i] = "none"]
    /\ UNCHANGED <<offVars, entered_empty, unacked, srcpads, locals, state, lock, sink_block_cond, pending_drain_pads,
                   need_reconfigure, current_caps, graph, sink_eos,
                   eos_in_flight, priv, caps_events, reconfigures>>

\* Lines 577-579 and 774: a caps query; query_caps takes the lock.
QueryCaps(i) ==
    /\ pc[Sink(i)] = "query_run"
    /\ lock = NoOwner
    /\ lock' = Sink(i)
    /\ pc' = [pc EXCEPT ![Sink(i)] = "query_peers"]
    /\ UNCHANGED <<offVars, entered_empty, unacked, srcpads, began, locals, state, sink_block_cond,
                   pending_drain_pads, need_reconfigure, current_caps, graph,
                   sink_eos, eos_in_flight, priv, caps_events, reconfigures>>

\* Lines 775-794: gst_pad_peer_query_caps on every src pad, with the lock
\* held; then the lock is released and the query answered.
QueryCapsPeers(i) ==
    /\ pc[Sink(i)] = "query_peers"
    /\ lock = Sink(i)
    /\ lock' = NoOwner
    /\ began' = [began EXCEPT ![i] = "none"]
    /\ pc' = [pc EXCEPT ![Sink(i)] = "idle"]
    /\ UNCHANGED <<offVars, entered_empty, unacked, srcpads, locals, state, sink_block_cond,
                   pending_drain_pads, need_reconfigure, current_caps, graph,
                   sink_eos, eos_in_flight, priv, caps_events, reconfigures>>

(***************************************************************************)
(* gst_auto_convert2_src_proxy_event on an EOS.                             *)
(***************************************************************************)

\* Lines 596-597: the EOS reaches the proxy pad of src pad o and the state
\* is read, without the lock.  In a state other than DRAINING the event goes
\* to gst_pad_event_default.
EosArrives(o) ==
    /\ pc[Src(o)] = "idle"
    /\ o \in eos_in_flight
    /\ eos_in_flight' = eos_in_flight \ {o}
    /\ pc' = [pc EXCEPT ![Src(o)] =
                IF state = "DRAINING_GRAPH" THEN "eos_pending" ELSE "idle"]
    /\ UNCHANGED <<offVars, entered_empty, unacked, srcpads, began, locals, state, lock, sink_block_cond, pending_drain_pads,
                   need_reconfigure, current_caps, graph, sink_eos, priv,
                   caps_events, reconfigures>>

\* Lines 601-612, under the lock: the pad leaves the table; the handler calls
\* graph_drained when the table is empty then.  On a NULL table
\* g_hash_table_remove and g_hash_table_size return 0.
EosPending(o) ==
    /\ pc[Src(o)] = "eos_pending"
    /\ lock = NoOwner
    /\ unacked' = unacked \ {o}
    /\ LET table == IF pending_drain_pads = <<>> THEN {}
                    ELSE pending_drain_pads[1] \ {o}
           last_pad_drained == table = {}
       IN  /\ pending_drain_pads' =
                 IF pending_drain_pads = <<>> THEN <<>> ELSE <<table>>
           /\ pc' = [pc EXCEPT ![Src(o)] =
                        IF last_pad_drained THEN "drained_enter" ELSE "idle"]
    /\ UNCHANGED <<offVars, entered_empty, srcpads, began, locals, state, lock, sink_block_cond, need_reconfigure,
                   current_caps, graph, sink_eos, eos_in_flight, priv,
                   caps_events, reconfigures>>

Next ==
    \/ \E i \in SinkPads : StartChain(i)
    \/ \E i \in SinkPads, f \in Formats : StartCapsEvent(i, f)
    \/ \E i \in SinkPads : StartQuery(i)
    \/ \E o \in SrcPads : Reconfigure(o)
    \/ \E i \in SinkPads : check_sink_block(i)
    \/ \E i \in SinkPads : SpuriousWakeup(i)
    \/ \E i \in SinkPads : ChainNeedsReconfigure(i)
    \/ \E i \in SinkPads : ChainPush(i)
    \/ \E i \in SinkPads : BeginRebuildingGraph(i)
    \/ \E i \in SinkPads : SendEos(i)
    \/ \E i \in SinkPads : NothingToDrain(i)
    \/ \E p \in Procs : GraphDrainedClear(p)
    \/ \E p \in Procs : GraphDrainedBuild(p)
    \/ \E p \in Procs : GraphDrainedFinish(p)
    \/ \E i \in SinkPads : EventStoreSticky(i)
    \/ \E i \in SinkPads : EventCaps(i)
    \/ \E i \in SinkPads : EventForward(i)
    \/ \E i \in SinkPads : QueryRun(i)
    \/ \E i \in SinkPads : QueryCaps(i)
    \/ \E i \in SinkPads : QueryCapsPeers(i)
    \/ \E o \in SrcPads : EosArrives(o)
    \/ \E o \in SrcPads : EosPending(o)

Spec == Init /\ [][Next]_vars

(***************************************************************************)
(* SpecPads: the element after its first planning pass, whose application   *)
(* releases src pads while it streams.  Upstream has finished its caps      *)
(* negotiation: it pushes buffers and sends queries, no further caps event. *)
(***************************************************************************)

\* gst_auto_convert2_release_pad (lines 506-514) on src pad o: under the
\* lock gst_element_remove_pad takes the pad off srcpads and unsets the
\* target of the ghost pad.  Pads are named by their place in the list, so
\* the application releases the last one; it does so when no EOS is on its
\* way to the pad and none is being handled for it.
ReleasePad(o) ==
    /\ o \in srcpads
    /\ \A x \in srcpads : x <= o
    /\ lock = NoOwner
    /\ pc[Src(o)] = "idle"
    /\ o \notin eos_in_flight
    /\ srcpads' = srcpads \ {o}
    /\ need_reconfigure' = [need_reconfigure EXCEPT ![o] = FALSE]
    /\ graph' = [graph EXCEPT !.src_target[o] = NoSrcTarget]
    /\ UNCHANGED <<offVars, entered_empty, unacked, began, pc, locals, state,
                   lock, sink_block_cond, pending_drain_pads, current_caps,
                   sink_eos, eos_in_flight, priv, caps_events, reconfigures>>

\* The element after the caps event of its last sink pad (lines 542-556):
\* every sink pad has caps and build_graph has run on the empty bin.  Since
\* then downstream may have sent reconfigure events, which the src pads have
\* latched; reconfigures counts the events from here on.
PadsInit ==
    /\ SelOff /\ ChainOff /\ PlanOff
    /\ \E c \in {x \in CapsValues : AllHaveCaps(x)} :
          /\ current_caps = c
          /\ priv = gst_auto_video_convert2_begin_building_graph(CapsSeq(c))
    /\ srcpads = SrcPads
    /\ graph = BuildGraph(priv, current_caps, ClearGraph)
    /\ pc = [p \in Procs |-> "idle"]
    /\ event = [i \in SinkPads |-> NoEvent]
    /\ sink_pads_it = [i \in SinkPads |-> 0]
    /\ awaiting_drain = [i \in SinkPads |-> FALSE]
    /\ state = "IDLE"
    /\ lock = NoOwner
    /\ sink_block_cond = {}
    /\ pending_drain_pads = <<>>
    /\ need_reconfigure \in [SrcPads -> BOOLEAN]
    /\ sink_eos = {}
    /\ eos_in_flight = {}
    /\ caps_events = Cardinality(SinkPads)
    /\ reconfigures = 0
    /\ began = [i \in SinkPads |-> "none"]
    /\ unacked = {}
    /\ entered_empty = {}

PadsNext ==
    \/ \E i \in SinkPads : StartChain(i)
    \/ \E i \in SinkPads : StartQuery(i)
    \/ \E o \in SrcPads : Reconfigure(o)
    \/ \E o \in SrcPads : ReleasePad(o)
    \/ \E i \in SinkPads : check_sink_block(i)
    \/ \E i \in SinkPads : SpuriousWakeup(i)
    \/ \E i \in SinkPads : ChainNeedsReconfigure(i)
    \/ \E i \in SinkPads : ChainPush(i)
    \/ \E i \in SinkPads : BeginRebuildingGraph(i)
    \/ \E i \in SinkPads : SendEos(i)
    \/ \E i \in SinkPads : NothingToDrain(i)
    \/ \E p \in Procs : GraphDrainedClear(p)
    \/ \E p \in Procs : GraphDrainedBuild(p)
    \/ \E p \in Procs : GraphDrainedFinish(p)
    \/ \E i \in SinkPads : QueryRun(i)
    \/ \E i \in SinkPads : QueryCaps(i)
    \/ \E i \in SinkPads : QueryCapsPeers(i)
    \/ \E o \in SrcPads : EosArrives(o)
    \/ \E o \in SrcPads : EosPending(o)

SpecPads == PadsInit /\ [][PadsNext]_vars

(***************************************************************************)
(* SpecLive: the element from a built graph on, streaming buffers, with its *)
(* threads scheduled fairly.  A streaming thread that can take a step of    *)
(* the chain function it is in takes one in the end, and so does the thread *)
(* that carries an EOS to a src pad: an EOS sent into the graph reaches     *)
(* every src pad the graph feeds from that sink pad.  Nothing obliges       *)
(* upstream to push a buffer or downstream to send a reconfigure event, and *)
(* no spurious wakeup need happen.                                          *)
(***************************************************************************)
LiveNext ==
    \/ \E i \in SinkPads : StartChain(i)
    \/ \E o \in SrcPads : Reconfigure(o)
    \/ \E i \in SinkPads : check_sink_block(i)
    \/ \E i \in SinkPads : SpuriousWakeup(i)
    \/ \E i \in SinkPads : ChainNeedsReconfigure(i)
    \/ \E i \in SinkPads : ChainPush(i)
    \/ \E i \in SinkPads : BeginRebuildingGraph(i)
    \/ \E i \in SinkPads : SendEos(i)
    \/ \E i \in SinkPads : NothingToDrain(i)
    \/ \E p \in Procs : GraphDrainedClear(p)
    \/ \E p \in Procs : GraphDrainedBuild(p)
    \/ \E p \in Procs : GraphDrainedFinish(p)
    \/ \E o \in SrcPads : EosArrives(o)
    \/ \E o \in SrcPads : EosPending(o)

\* The steps of the chain function the thread of sink pad i is in, but for
\* build_graph.
SinkProgress(i) ==
    \/ check_sink_block(i)
    \/ ChainNeedsReconfigure(i)
    \/ ChainPush(i)
    \/ BeginRebuildingGraph(i)
    \/ SendEos(i)
    \/ NothingToDrain(i)
    \/ GraphDrainedClear(Sink(i))
    \/ GraphDrainedFinish(Sink(i))

\* The steps of an EOS on its way to src pad o and in the pad's handler, but
\* for build_graph.
SrcProgress(o) ==
    \/ EosArrives(o)
    \/ EosPending(o)
    \/ GraphDrainedClear(Src(o))
    \/ GraphDrainedFinish(Src(o))

\* A thread that can take a step takes one in the end.  build_graph, which
\* runs with the lock held and waits for nothing, returns: the thread in
\* graph_drained does not stay before line 1771 for ever (weak fairness of
\* GraphDrainedBuild, which is enabled exactly while the thread is there).
Fairness ==
    /\ \A i \in SinkPads : WF_vars(SinkProgress(i))
    /\ \A o \in SrcPads : WF_vars(SrcProgress(o))
    /\ \A p \in Procs : []<>(pc[p] # "drained_build")

\* The element after its first planning pass, before downstream has sent a
\* reconfigure event.
LiveInit ==
    /\ PadsInit
    /\ need_reconfigure = [o \in SrcPads |-> FALSE]

SpecLive == LiveInit /\ [][LiveNext]_vars /\ Fairness

(***************************************************************************)
(* SpecChain: a chain generator of every length, for every route over two   *)
(* formats and every catalog of a bounded family, pulled until it is        *)
(* exhausted.                                                               *)
(***************************************************************************)
MaxCatalog == 2         \* most factories in a catalog drawn

GenCaps == {{1}, {2}}

GenKlasses == {{}, {"Decoder"}, {"Converter"}, {"Encoder"}}

\* The k-th factory of a catalog, of sink caps s, src caps t and klass c.
GenFactory(k, s, t, c) ==
    [name |-> k, sinks |-> 1, srcs |-> 1, sink_caps |-> s, src_caps |-> t,
     klass |-> c]

GenCatalogs ==
    UNION {{[k \in 1 .. len |-> GenFactory(k, s[k], t[k], c[k])] :
                s \in [1 .. len -> GenCaps], t \in [1 .. len -> GenCaps],
                c \in [1 .. len -> GenKlasses]} : len \in 0 .. MaxCatalog}

\* init_chain_generator for a route and a length.
ChainInit ==
    /\ genIndex \in {index_factories(catalog) : catalog \in GenCatalogs}
    /\ genRoute \in [sink_caps : GenCaps, src_caps : GenCaps]
    /\ generator \in {init_chain_generator(length) :
                            length \in 1 .. MaxChainLength}
    /\ genChain = <<>>
    /\ genPc = "pull"
    /\ test_element_cache = [factory \in 1 .. Len(genIndex) |-> <<>>]
    /\ elements = <<>>
    /\ SelOff /\ PlanOff /\ ElemInit

\* One turn of the caller's loop (lines 1312-1317): a pull of
\* generate_next_chain and, when it yields a chain (the iterators array),
\* try_chain on that chain.  One link of the sandbox may fail, so that the
\* elements of `acquired` positions were fetched.
GenerateNextChain ==
    /\ genPc = "pull"
    /\ LET r == generate_next_chain(genIndex, genRoute.sink_caps,
                                    genRoute.src_caps, generator)
       IN  /\ generator' = r.gen
           /\ genChain' = IF r.ok THEN r.gen.iterators ELSE <<>>
           /\ genPc' = IF r.ok THEN "pull" ELSE "done"
           /\ IF r.ok
              THEN \E acquired \in LinkOutcomes(Len(r.gen.iterators)) :
                      /\ test_element_cache' =
                            try_chain_cache(test_element_cache,
                                            r.gen.iterators,
                                      acquired).cache
                      /\ elements' =
                            try_chain_cache(test_element_cache,
                                            r.gen.iterators,
                                      acquired).elements
              ELSE UNCHANGED <<test_element_cache, elements>>
    /\ UNCHANGED <<genIndex, genRoute, selVars, planVars, elemVars>>

ChainNext == GenerateNextChain

SpecChain == ChainInit /\ [][ChainNext]_vars

(***************************************************************************)
(* SpecPlan: build_graph on the cleared graph of an element of either       *)
(* class, with one of four catalogs, up to MaxPlanPads sink pads and as     *)
(* many src pads.                                                           *)
(***************************************************************************)
MaxPlanPads == 2        \* most sink pads, and most src pads, of an element

PlanFactory(name, s, t, c) ==
    [name |-> name, sinks |-> 1, srcs |-> 1, sink_caps |-> {s},
     src_caps |-> {t}, klass |-> {c}]

\* No factory; a converter and an encoder in a row; two converters for the
\* same formats; five converters in a row; a converter after a factory with
\* two src templates and one without a sink template.
PlanCatalogs ==
    { <<>>,
      <<PlanFactory("convert", 1, 2, "Converter"),
        PlanFactory("encode", 2, 3, "Encoder")>>,
      <<PlanFactory("scale_a", 1, 2, "Converter"),
        PlanFactory("scale_b", 1, 2, "Converter")>>,
      <<PlanFactory("stage_a", 1, 2, "Converter"),
        PlanFactory("stage_b", 2, 3, "Converter"),
        PlanFactory("stage_c", 3, 4, "Converter"),
        PlanFactory("stage_d", 4, 6, "Converter"),
        PlanFactory("stage_e", 6, 7, "Converter")>>,
      <<[name |-> "demux", sinks |-> 1, srcs |-> 2, sink_caps |-> {1},
         src_caps |-> {3}, klass |-> {"Converter"}],
        [name |-> "source", sinks |-> 0, srcs |-> 1, sink_caps |-> {},
         src_caps |-> {6}, klass |-> {"Converter"}],
        PlanFactory("scale", 1, 2, "Converter")>> }

\* The current caps a sink pad may have, and what the peer of a src pad may
\* answer a caps query with.
PlanSinkCaps == {{1}, {9}}

PlanPeerCaps == {{1}, {2}, {3}, {6}, {7}, {0, 1}}

PlanKlasses == {"GstAutoConvert2", "GstAutoVideoConvert2"}

PlanInputs ==
    UNION {[klass : PlanKlasses, catalog : PlanCatalogs,
            sink_caps : [0 .. n - 1 -> PlanSinkCaps],
            peer_caps : [0 .. m - 1 -> PlanPeerCaps]] :
              n \in 1 .. MaxPlanPads, m \in 1 .. MaxPlanPads}

PlanSinkCount == Cardinality(DOMAIN planIn.sink_caps)

PlanSrcCount == Cardinality(DOMAIN planIn.peer_caps)

\* The element of planIn when begin_building_graph has run: the video class
\* has taken its snapshot of the sink caps.
PlanElement ==
    [klass |-> planIn.klass,
     priv |-> IF planIn.klass = "GstAutoVideoConvert2"
              THEN gst_auto_video_convert2_begin_building_graph(
                      [k \in 1 .. PlanSinkCount |-> planIn.sink_caps[k - 1]])
              ELSE gst_auto_video_convert2_init,
     factory_index |-> index_factories(planIn.catalog)]

PlanInit ==
    /\ planIn \in PlanInputs
    /\ planOut = <<>>
    /\ planPc = "start"
    /\ SelOff /\ ChainOff /\ ElemInit

\* build_graph (lines 1676-1680) on the cleared graph.
PlanBuildGraph ==
    /\ planPc = "start"
    /\ LET props == generate_proposals(PlanElement, planIn.sink_caps,
                                       PlanSinkCount, planIn.peer_caps,
                                       PlanSrcCount)
           sel == select_proposals(props, PlanSrcCount)
       IN  planOut' =
              [props |-> props, sel |-> sel,
               graph |-> instantiate_proposals(props, sel, PlanSinkCount,
                            clear_graph(PlanSinkCount, PlanSrcCount))]
    /\ planPc' = "done"
    /\ UNCHANGED <<planIn, selVars, chainVars, elemVars>>

\* The filters of the caps queries.
QueryFilters == {NoFilter, Filter({1}), Filter({2, 3}), Filter({1, 2, 9})}

\* What the peers of the sink pads and of the src pads advertise, in pad
\* order: an upstream peer advertises the caps it has sent.
SinkPeers == [k \in 1 .. PlanSinkCount |-> planIn.sink_caps[k - 1]]

SrcPeers == [k \in 1 .. PlanSrcCount |-> planIn.peer_caps[k - 1]]

WithQuery(out, side, filter, result) ==
    [props |-> out.props, sel |-> out.sel, graph |-> out.graph,
     query |-> [side |-> side, filter |-> filter, result |-> result]]

\* gst_auto_convert2_sink_query on a caps query (lines 577-579), the state
\* being IDLE.
PlanSinkQuery ==
    /\ planPc = "done"
    /\ \E filter \in QueryFilters :
          planOut' = WithQuery(planOut, "sink", filter,
                        query_caps(filter,
                                   all_sink_caps(PlanElement.factory_index),
                                   SrcPeers))
    /\ planPc' = "queried"
    /\ UNCHANGED <<planIn, selVars, chainVars, elemVars>>

\* gst_auto_convert2_src_query on a caps query (lines 626-628).
PlanSrcQuery ==
    /\ planPc = "done"
    /\ \E filter \in QueryFilters :
          planOut' = WithQuery(planOut, "src", filter,
                        query_caps(filter,
                                   all_src_caps(PlanElement.factory_index),
                                   SinkPeers))
    /\ planPc' = "queried"
    /\ UNCHANGED <<planIn, selVars, chainVars, elemVars>>

PlanNext == PlanBuildGraph \/ PlanSinkQuery \/ PlanSrcQuery

SpecPlan == PlanInit /\ [][PlanNext]_vars

(***************************************************************************)
(* SpecSelect: select_proposals on every well-formed proposal list of a     *)
(* bounded family.                                                          *)
(***************************************************************************)
MaxProposals == 3       \* longest proposal list drawn
MaxSelSrc == 3          \* largest number of output pads drawn

SelSrcPads == 0 .. selSrcCount - 1

\* Step costs a policy's cost_transformation_step may return (a guint):
\* 1, 3, 2^31 - 1 and 2^31.
CostChoices == {U32(0, 1), U32(0, 3), U32(32767, 65535), U32(32768, 0)}

\* <<step_count, cost>>: a passthrough has no step and cost 0
\* (create_proposal, g_malloc0); a chain's cost is the sum of its step costs.
Shapes == {<<0, U32(0, 0)>>} \cup {<<1, c>> : c \in CostChoices}

PropRecs(src_count) ==
    {[parent |-> par, pad |-> 0, parent_step |-> 0, src_pad |-> o,
      step_count |-> sh[1], cost |-> sh[2]] :
        par \in 0 .. MaxProposals - 1, o \in 0 .. src_count - 1, sh \in Shapes}

\* The output pads on the parent path of proposal i.
ChainPads(props, i) ==
    {props[ChainSelection(props, i)[k]].src_pad :
        k \in 1 .. Len(ChainSelection(props, i))}

\* What generate_proposals guarantees of its list: a parent precedes its
\* branches and has a step to branch off (lines 1343, 1398-1415), a branch's
\* output pad is not on its parent's path (lines 1338-1340), and one route
\* yields either a single passthrough or chains only (lines 1305-1321).
WellFormed(props) ==
    /\ \A i \in 1 .. Len(props) :
          /\ props[i].parent < i
          /\ props[i].parent # 0 =>
                /\ props[props[i].parent].step_count > props[i].parent_step
                /\ props[i].src_pad \notin ChainPads(props, props[i].parent)
    /\ \A i, j \in 1 .. Len(props) :
          (/\ i # j
           /\ props[i].parent = props[j].parent
           /\ props[i].pad = props[j].pad
           /\ props[i].parent_step = props[j].parent_step
           /\ props[i].src_pad = props[j].src_pad)
             => (props[i].step_count > 0 /\ props[j].step_count > 0)

SelInit ==
    /\ selSrcCount \in 1 .. MaxSelSrc
    /\ proposals \in {ps \in UNION {[1 .. n -> PropRecs(selSrcCount)] :
                                    n \in 0 .. MaxProposals} : WellFormed(ps)}
    /\ selected = <<>>
    /\ selPc = "start"
    /\ ChainOff /\ PlanOff /\ ElemInit

\* build_graph, line 1677: selected_proposals = select_proposals (proposals).
SelectProposals ==
    /\ selPc = "start"
    /\ selected' = select_proposals(proposals, selSrcCount)
    /\ selPc' = "done"
    /\ UNCHANGED <<proposals, selSrcCount, chainVars, planVars, elemVars>>

SelNext == SelectProposals

SpecSelect == SelInit /\ [][SelNext]_vars

(***************************************************************************)
(* Claims about select_proposals (checked under SpecSelect).                *)
(***************************************************************************)
RECURSIVE ExactSeqCost(_, _, _)
ExactSeqCost(props, sel, k) ==
    IF k > Len(sel) THEN <<0, 0>>
    ELSE ExactAdd(props[sel[k]].cost, ExactSeqCost(props, sel, k + 1))

RECURSIVE ExactSetCost(_, _)
ExactSetCost(props, S) ==
    IF S = {} THEN <<0, 0>>
    ELSE LET x == CHOOSE x \in S : TRUE
         IN  ExactAdd(props[x].cost, ExactSetCost(props, S \ {x}))

\* The exact cost of the parent path of proposal i.
ChainExactCost(props, i) ==
    ExactSeqCost(props, ChainSelection(props, i), 1)

RECURSIVE CoverCost(_, _)
CoverCost(props, K) ==
    IF K = {} THEN <<0, 0>>
    ELSE LET x == CHOOSE x \in K : TRUE
         IN  ExactAdd(ChainExactCost(props, x), CoverCost(props, K \ {x}))

\* The ways of covering the full output set by a disjoint union of parent
\* paths, each named by the proposal its path ends in.
DisjointCovers(props) ==
    {K \in SUBSET (1 .. Len(props)) :
        /\ \A i, j \in K : i # j => ChainPads(props, i) \cap ChainPads(props, j) = {}
        /\ UNION {ChainPads(props, i) : i \in K} = SelSrcPads}

SelectedPads == {proposals[selected[k]].src_pad : k \in 1 .. Len(selected)}

SelectedCost == ExactSeqCost(proposals, selected, 1)

\* C1: whenever the full output set can be covered by a disjoint union of
\* parent paths, the list select_proposals returns delivers exactly the full
\* output set and its total cost is the least among all such covers.  (The
\* claim is stated for the proposal lists that admit a cover; what happens
\* without one is C10.)
C1_SelectIsMinimalDisjointCover ==
    (selPc = "done" /\ DisjointCovers(proposals) # {}) =>
        /\ SelectedPads = SelSrcPads
        /\ \A K \in DisjointCovers(proposals) :
              ExactLeq(SelectedCost, CoverCost(proposals, K))

\* No sum of proposal costs reaches UINT_MAX: guint sums are exact.
NoWrap(props) == ExactSetCost(props, 1 .. Len(props))[1] < 65535

\* The admissible sets of C2: closed under parent, one proposal per output.
AdmissibleSets(props) ==
    {A \in SUBSET (1 .. Len(props)) :
        /\ \A i \in A : props[i].parent # 0 => props[i].parent \in A
        /\ \A o \in SelSrcPads :
              Cardinality({i \in A : props[i].src_pad = o}) = 1}

\* C2: the selected proposals deliver every output and cost no more than any
\* admissible set of direct and branch proposals, a shared parent being paid
\* once.  (Stated for the lists whose cost sums do not wrap, so that a
\* violation is one of the selection and not of guint arithmetic.)
C2_SelectIsLowestCostSet ==
    (selPc = "done" /\ NoWrap(proposals) /\ AdmissibleSets(proposals) # {}) =>
        /\ SelectedPads = SelSrcPads
        /\ \A A \in AdmissibleSets(proposals) :
              ExactLeq(SelectedCost, ExactSetCost(proposals, A))

\* The selector is exact on the lists that admit a disjoint cover and whose
\* sums do not wrap.
SelectExactWithoutWrap ==
    (selPc = "done" /\ NoWrap(proposals) /\ DisjointCovers(proposals) # {}) =>
        /\ SelectedPads = SelSrcPads
        /\ \A K \in DisjointCovers(proposals) :
              ExactLeq(SelectedCost, CoverCost(proposals, K))

(***************************************************************************)
(* Claims about the element (checked under Spec).                           *)
(***************************************************************************)

\* This step is an execution of build_graph: by graph_drained (line 1769)
\* or by the caps event handler (line 554).
BuildGraphRuns ==
    \/ \E p \in Procs : pc[p] = "drained_build" /\ pc'[p] = "drained_finish"
    \/ \E i \in SinkPads : /\ pc[Sink(i)] = "event_caps"
                           /\ pc'[Sink(i)] = "event_forward"
                           /\ AllHaveCaps(current_caps)

\* This step is an execution of clear_graph (line 1768).
ClearGraphRuns ==
    \E p \in Procs : pc[p] = "drained_enter" /\ pc'[p] = "drained_build"

\* C3: a buffer is handed to the live graph (gst_auto_convert2_chain reaches
\* line 526) only while the build state is IDLE, never in DRAINING or
\* REBUILDING, whichever thread carries it.
C3_NoDispatchWhileRebuilding ==
    [][\A i \in SinkPads :
          (pc[Sink(i)] = "chain_push" /\ pc'[Sink(i)] = "idle")
             => state = "IDLE"]_vars

\* C4: when graph_drained completes and the state returns to IDLE, no input
\* thread is left waiting on the sink-block condition: every thread that was
\* blocked in check_sink_block has been woken and can go on without a
\* further rebuild.
C4_RebuildWakesEveryBlockedInput ==
    [][(\E p \in Procs :
            pc[p] = "drained_finish" /\ pc'[p] # "drained_finish")
          => sink_block_cond' = {}]_vars

\* C5: the entry actions of DRAINING (begin_rebuilding_graph recording the
\* awaiting src pads and sending EOS) are executed only from IDLE: once a
\* drain is under way no second thread executes them before the state is
\* back to IDLE.
C5_DrainingEnteredOnce ==
    [][\A i \in SinkPads :
          (pc[Sink(i)] = "rebuild_enter" /\ pc'[Sink(i)] = "rebuild_send")
             => state = "IDLE"]_vars

\* C6: the live graph is mutated (clear_graph, build_graph) only in state
\* REBUILDING, whichever callback does it.  (Every mutation of the model is
\* made with the lock held; the state is what the claim adds.)
C6_GraphMutatedOnlyWhileRebuilding ==
    [][(BuildGraphRuns \/ ClearGraphRuns) => state' = "REBUILDING_GRAPH"]_vars

\* C7: whenever build_graph starts, the prior graph has been torn down: the
\* bin has no child element and no sink or src ghost pad has a target.
C7_BuildStartsFromClearedGraph ==
    [][BuildGraphRuns => graph = ClearGraph]_vars

\* C8: a caps event that arrives when every sink pad already has caps does
\* not start a planning pass (a caps event starts one only by completing
\* the description of the inputs).
C8_LaterCapsEventStartsNoPass ==
    [][\A i \in SinkPads :
          (/\ pc[Sink(i)] = "event_caps"
           /\ pc'[Sink(i)] = "event_forward"
           /\ AllHaveCaps(current_caps)) => ~event[i].described]_vars

\* C9: every execution of build_graph is preceded by begin_building_graph:
\* the policy's snapshot the pass plans with is the one the hook takes of
\* the sink caps the pass uses.
C9_SnapshotTakenBeforeEveryBuild ==
    [][BuildGraphRuns =>
          priv' = gst_auto_video_convert2_begin_building_graph(
                      CapsSeq(current_caps))]_vars

\* The generated proposals can cover the src pads `pads` by a disjoint union
\* of parent paths.
CoverExists(props, pads) ==
    \E K \in SUBSET (1 .. Len(props)) :
        /\ \A i, j \in K :
              i # j => ChainPads(props, i) \cap ChainPads(props, j) = {}
        /\ UNION {ChainPads(props, i) : i \in K} = pads

\* C10: a planning pass whose proposals cannot cover every src pad leaves
\* every src ghost pad without a target, gives every sink ghost pad a
\* fakesink and clears the reconfigure flags.
C10_NoCoverLeavesOutputsUnconnected ==
    [][(BuildGraphRuns
          /\ ~CoverExists(PlanTable[priv'][current_caps].props, SrcPads))
          => /\ \A o \in SrcPads : ~graph'.src_target[o].linked
             /\ \A i \in SinkPads : graph'.sink_target[i] = "fakesink"
             /\ \A o \in SrcPads : ~need_reconfigure'[o]]_vars

\* The thread of sink pad i hands its buffer, event or query downstream:
\* gst_proxy_pad_chain_default (line 526), gst_pad_event_default (line 565)
\* or gst_pad_query_default (line 585).
HandsDownstream(i) ==
    /\ pc[Sink(i)] \in {"chain_push", "event_forward", "query_run"}
    /\ pc'[Sink(i)] = "idle"

\* The thread of sink pad i, answering a caps query, queries the peers of
\* the src pads (line 777).
QueriesPeers(i) == pc[Sink(i)] = "query_peers" /\ pc'[Sink(i)] = "idle"

C14_BlockedCapsQueryDispatches ==
    \E i \in SinkPads : began[i] = "passed" /\ pc[Sink(i)] = "query_peers"

\* This step is the end of graph_drained (lines 1771-1779): the rebuild
\* completes.
RebuildCompletes ==
    \E p \in Procs : pc[p] = "drained_finish" /\ pc'[p] # "drained_finish"

\* This step is build_graph run by graph_drained (line 1769).
RebuildBuilds ==
    \E p \in Procs : pc[p] = "drained_build" /\ pc'[p] = "drained_finish"

\* C13 as stated: when a rebuild completes (build_graph has finished and
\* the state goes back to IDLE) no src pad has its need-reconfigure flag
\* set.
C13_FlagsClearWhenRebuildCompletes ==
    [][RebuildCompletes => \A o \in srcpads : ~need_reconfigure'[o]]_vars

\* C13, amended: build_graph, run by graph_drained, ends with the flag of
\* every src pad cleared, and a flag is set afterwards by nothing but a
\* reconfigure event from downstream (which may come before the state is
\* back to IDLE).
C13_BuildClearsFlagsOnlyDownstreamSets ==
    [][/\ RebuildBuilds => \A o \in srcpads : ~need_reconfigure'[o]
       /\ \A o \in srcpads :
             (~need_reconfigure[o] /\ need_reconfigure'[o])
                => reconfigures' = reconfigures + 1]_vars

\* graph_drained has run build_graph on a request for reconfiguration and is
\* about to go back to IDLE; the flags are clear.
C13_RebuildBuiltFlagsClear ==
    /\ \E p \in Procs : pc[p] = "drained_finish"
    /\ reconfigures > 0
    /\ \A o \in srcpads : ~need_reconfigure[o]

\* Thread p takes the machine from DRAINING to REBUILDING (line 1766) and
\* tears the graph down.
LeavesDraining(p) ==
    /\ pc[p] = "drained_enter" /\ pc'[p] = "drained_build"
    /\ state = "DRAINING_GRAPH"

\* No sink pad has a target: there is nothing an EOS could be sent into,
\* "the graph is already drained" (line 1754).
NothingToAwait == \A i \in SinkPads : graph.sink_target[i] = "none"

\* C11: the machine leaves DRAINING for REBUILDING, and tears the graph
\* down, only when every src pad recorded at the entry of DRAINING has sent
\* its EOS back since.  (A bin none of whose sink pads has a target awaits
\* nothing: that the machine goes on at once then is read as the case of the
\* empty awaiting set, not as a breach.)
C11_RebuildOnlyAfterAllAcks ==
    [][\A p \in Procs :
          LeavesDraining(p) => unacked = {} \/ NothingToAwait]_vars

(***************************************************************************)
(* Claims about the chain generator (checked under SpecChain).              *)
(***************************************************************************)

\* C15: every chain generate_next_chain yields, for every catalog, every
\* length from 1 to 4 and every route, is one validate_chain accepts for the
\* route: the validator returns no failing depth (-1) for it.
C15_YieldedChainsAreValid ==
    (genPc = "pull" /\ genChain # <<>>)
        => validate_chain(genIndex, genRoute.sink_caps, genRoute.src_caps,
                          genChain) = -1

\* The generator has yielded a chain of two factories after passing over
\* candidates validate_chain refused.
C15_ChainYieldedAfterPruning ==
    /\ genPc = "pull"
    /\ Len(genChain) = 2
    /\ genChain # <<1, 1>>
    /\ validate_chain(genIndex, genRoute.sink_caps, genRoute.src_caps,
                      <<1, 1>>) # -1

(***************************************************************************)
(* Claims about proposal generation (checked under SpecPlan).               *)
(***************************************************************************)

\* The ProposalParent of the direct route from sink pad i.
DirectParent(i) == [parent |-> 0, pad |-> i, parent_step |-> 0]

\* The direct proposals (layer 0) of the pair (i, o), as positions of props.
DirectProposals(props, i, o) ==
    {k \in 1 .. Len(props) :
        props[k].parent = 0 /\ props[k].pad = i /\ props[k].src_pad = o}

\* The passthrough from caps S to a peer that accepts T is viable.
PassthroughViable(S, T) == S \cap T # {}

\* The chains of `length` factories that validate_chain accepts for the
\* route and that give a proposal when tried.
ViableChains(ac, parent, S, o, T, length) ==
    {c \in [1 .. length -> 1 .. Len(ac.factory_index)] :
        /\ validate_chain(ac.factory_index, S, T, c) = -1
        /\ try_chain(ac, c, parent, S, o, T) # <<>>}

\* The lengths from 1 to MaxChainLength at which the route has a viable
\* chain.
ViableLengths(ac, parent, S, o, T) ==
    {length \in 1 .. MaxChainLength :
        ViableChains(ac, parent, S, o, T, length) # {}}

Shortest(lengths) == CHOOSE l \in lengths : \A x \in lengths : l <= x

\* What the route tests yield, in the order of the tests.
RECURSIVE Yielded(_, _)
Yielded(tests, k) ==
    IF k > Len(tests) THEN <<>>
    ELSE tests[k].found \o Yielded(tests, k + 1)

\* C16 as stated: layer 0 gives every pair (sink pad, src pad) at most one
\* proposal: the passthrough when it is viable, otherwise the first proposal
\* yielded at the shortest viable chain length.
C16_OneDirectProposalPerPair ==
    planPc = "done" =>
        \A i \in DOMAIN planIn.sink_caps, o \in DOMAIN planIn.peer_caps :
            LET D == DirectProposals(planOut.props, i, o)
                S == planIn.sink_caps[i]
                T == planIn.peer_caps[o]
                yielded == Yielded(route_tests(PlanElement, DirectParent(i),
                                               S, o, T), 1)
            IN  /\ Cardinality(D) <= 1
                /\ PassthroughViable(S, T)
                      => \E k \in D : planOut.props[k].step_count = 0
                /\ ~PassthroughViable(S, T)
                      => \A k \in D : planOut.props[k] = yielded[1]

\* C16, amended: layer 0 gives the pair nothing when the policy refuses the
\* route; otherwise the passthrough alone when it is viable; otherwise one
\* proposal for each viable chain of the shortest viable length (every one
\* of them, not only the first yielded), and nothing when no chain of 1 to
\* MaxChainLength factories is viable.
C16_DirectProposalsOfPair ==
    planPc = "done" =>
        \A i \in DOMAIN planIn.sink_caps, o \in DOMAIN planIn.peer_caps :
            LET props == planOut.props
                D == DirectProposals(props, i, o)
                S == planIn.sink_caps[i]
                T == planIn.peer_caps[o]
                lengths == ViableLengths(PlanElement, DirectParent(i), S, o, T)
                chains == ViableChains(PlanElement, DirectParent(i), S, o, T,
                                       Shortest(lengths))
            IN  IF ~validate_transform_route(PlanElement, S, T) THEN D = {}
                ELSE IF PassthroughViable(S, T)
                THEN /\ Cardinality(D) = 1
                     /\ \A k \in D : props[k].step_count = 0
                ELSE IF lengths = {} THEN D = {}
                ELSE /\ Cardinality(D) = Cardinality(chains)
                     /\ {props[k] : k \in D} =
                           {try_chain(PlanElement, c, DirectParent(i), S, o,
                                      T)[1] : c \in chains}

\* A pair without a viable passthrough has two direct proposals, from two
\* chains of the same length.
C16_TwoProposalsForOnePair ==
    /\ planPc = "done"
    /\ \E i \in DOMAIN planIn.sink_caps, o \in DOMAIN planIn.peer_caps :
          /\ ~PassthroughViable(planIn.sink_caps[i], planIn.peer_caps[o])
          /\ Cardinality(DirectProposals(planOut.props, i, o)) = 2

\* The routes of a planning pass: [parent, sink_caps, src_pad, src_caps],
\* the direct ones (lines 1381-1389) and those that branch off step j of a
\* proposal to a src pad that is not on its parent path (lines 1338-1354).
PlanRoutes ==
    {[parent |-> DirectParent(i), sink_caps |-> planIn.sink_caps[i],
      src_pad |-> o, src_caps |-> planIn.peer_caps[o]] :
        i \in DOMAIN planIn.sink_caps, o \in DOMAIN planIn.peer_caps}
    \cup
    UNION {{[parent |-> [parent |-> k, pad |-> -1, parent_step |-> j],
             sink_caps |-> planOut.props[k].steps[j + 1].src_caps,
             src_pad |-> o, src_caps |-> planIn.peer_caps[o]] :
                j \in 0 .. planOut.props[k].step_count - 1,
                o \in {x \in DOMAIN planIn.peer_caps :
                          ~AttachedToParent(planOut.props, k, x)}} :
              k \in 1 .. Len(planOut.props)}

\* The search of route r went as C17 says.
RouteSearchedInOrder(r) ==
    LET tests == route_tests(PlanElement, r.parent, r.sink_caps, r.src_pad,
                             r.src_caps)
        yields == generate_transform_route_proposals(PlanElement, r.parent,
                      r.sink_caps, r.src_pad, r.src_caps, <<>>)
        found == {k \in 1 .. Len(tests) : tests[k].found # <<>>}
    IN  /\ \A k \in 1 .. Len(tests) :
              /\ tests[k].length \in 0 .. MaxChainLength
              /\ tests[k].length = 0 <=> k = 1
              /\ k > 1 => tests[k - 1].length <= tests[k].length
        /\ Len(yields) = Cardinality(found)
        /\ \A y \in 1 .. Len(yields) :
              \E k \in found : yields[y] = tests[k].found[1]
        /\ IF PassthroughViable(r.sink_caps, r.src_caps)
           THEN /\ Len(tests) = 1
                /\ Len(yields) = 1
                /\ yields[1].step_count = 0
           ELSE \A k \in found :
                    /\ tests[k].found[1].step_count = tests[k].length
                    /\ \A j \in 1 .. Len(tests) :
                          /\ tests[j].length <= tests[k].length
                          /\ tests[j].length < tests[k].length
                                => tests[j].found = <<>>

\* C17 as stated: for every route the lengths are tried in the order 0, 1,
\* 2, 3, 4 and the search stops at the first length that yields: a viable
\* passthrough gives exactly one proposal, of no step, and no chain is
\* enumerated; otherwise all the proposals of the route have the same step
\* count L, no shorter chain was tested with success and no longer chain is
\* tested.
C17_EveryRouteSearchedInOrder ==
    planPc = "done" => \A r \in PlanRoutes : RouteSearchedInOrder(r)

\* C17, amended: the same, for every route the policy's
\* validate_transform_route admits (a route it refuses is not searched and
\* yields nothing, whether its passthrough is viable or not).
C17_AdmittedRouteSearchedInOrder ==
    planPc = "done" =>
        \A r \in PlanRoutes :
            validate_transform_route(PlanElement, r.sink_caps, r.src_caps)
                => RouteSearchedInOrder(r)

\* A route the policy admits, without a viable passthrough, yielded nothing
\* at length 1 and a proposal of two steps at length 2.
C17_SearchWentToSecondLength ==
    /\ planPc = "done"
    /\ \E r \in PlanRoutes :
          LET tests == route_tests(PlanElement, r.parent, r.sink_caps,
                                   r.src_pad, r.src_caps)
          IN  /\ validate_transform_route(PlanElement, r.sink_caps, r.src_caps)
              /\ ~PassthroughViable(r.sink_caps, r.src_caps)
              /\ tests # <<>> /\ tests[1].length = 0 /\ tests[1].found = <<>>
              /\ \A k \in 1 .. Len(tests) :
                    tests[k].length = 1 => tests[k].found = <<>>
              /\ \E k \in 1 .. Len(tests) :
                    /\ tests[k].length = 2
                    /\ tests[k].found # <<>>
                    /\ tests[k].found[1].step_count = 2

\* C18: along the parent edges of every proposal generate_proposals makes,
\* in every layer, no src pad occurs twice: the src pads of the proposal and
\* of its ancestors are pairwise distinct.
C18_AncestorSrcPadsDistinct ==
    planPc = "done" =>
        \A k \in 1 .. Len(planOut.props) :
            LET path == ChainSelection(planOut.props, k)
            IN  \A a, b \in 1 .. Len(path) :
                    a # b => planOut.props[path[a]].src_pad
                                # planOut.props[path[b]].src_pad

\* A proposal of the second layer exists: a branch off a branch.
C18_BranchOfBranchGenerated ==
    /\ planPc = "done"
    /\ \E k \in 1 .. Len(planOut.props) :
          Len(ChainSelection(planOut.props, k)) >= 2

\* C19: no proposal has more than MaxChainLength = 4 steps: for every
\* catalog and every route the step count of every generated proposal is
\* between 0 and 4 (and it is the number of its steps).
C19_StepCountWithinMaxChainLength ==
    planPc = "done" =>
        \A k \in 1 .. Len(planOut.props) :
            /\ planOut.props[k].step_count \in 0 .. MaxChainLength
            /\ planOut.props[k].step_count = Len(planOut.props[k].steps)

\* A proposal of four steps was generated, and a route that needs five
\* yielded nothing.
C19_FourStepProposalGenerated ==
    /\ planPc = "done"
    /\ \E k \in 1 .. Len(planOut.props) : planOut.props[k].step_count = 4
    /\ \E i \in DOMAIN planIn.sink_caps, o \in DOMAIN planIn.peer_caps :
          /\ planIn.sink_caps[i] = {1} /\ planIn.peer_caps[o] = {7}
          /\ DirectProposals(planOut.props, i, o) = {}

(***************************************************************************)
(* Claims about instantiation.                                              *)
(***************************************************************************)

\* The selected proposals parented directly on sink pad i, as positions of
\* sel.
ParentedOn(props, sel, i) ==
    {k \in 1 .. Len(sel) : props[sel[k]].parent = 0 /\ props[sel[k]].pad = i}

\* The rule of the comment of lines 1535-1537: more than one selected
\* proposal connects to the sink pad, or one connects it straight through.
TeeWanted(props, sel, i) ==
    \/ Cardinality(ParentedOn(props, sel, i)) > 1
    \/ \E k \in ParentedOn(props, sel, i) : props[sel[k]].step_count = 0

\* In graph g sink pad i has a tee exactly when the rule wants one, and then
\* the src pad of every selected proposal parented on i is fed from i.
TeesAsWanted(props, sel, n, g) ==
    \A i \in 0 .. n - 1 :
        /\ g.sink_target[i] = "tee" <=> TeeWanted(props, sel, i)
        /\ TeeWanted(props, sel, i)
              => \A k \in ParentedOn(props, sel, i) :
                    /\ g.src_target[props[sel[k]].src_pad].linked
                    /\ g.src_target[props[sel[k]].src_pad].feed = {i}

\* C20: instantiation attaches a tee to a sink pad if and only if more than
\* one selected proposal is parented directly on the pad or a selected
\* proposal parented on it is a passthrough, and then every selected
\* proposal parented on the pad is fed from the tee.
C20_TeeIffFanOutOrPassthrough ==
    [][BuildGraphRuns
          => TeesAsWanted(PlanTable[priv'][current_caps].props,
                          PlanTable[priv'][current_caps].sel,
                          Cardinality(SinkPads), graph')]_vars

\* The orders the selected proposals can be listed in.
Orderings(sel) ==
    {q \in [1 .. Len(sel) -> {sel[k] : k \in 1 .. Len(sel)}] :
        \A a, b \in 1 .. Len(sel) : a # b => q[a] # q[b]}

\* On a cleared graph instantiate_proposals follows the rule of C20,
\* whatever the order of the selected proposals.
TeesAsWantedOnClearedGraph ==
    planPc = "done" =>
        \A q \in Orderings(planOut.sel) :
            TeesAsWanted(planOut.props, q, PlanSinkCount,
                instantiate_proposals(planOut.props, q, PlanSinkCount,
                    clear_graph(PlanSinkCount, PlanSrcCount)))

\* A planning pass on a cleared graph put a tee on a sink pad that feeds
\* two selected proposals.
TeeFeedsTwoProposals ==
    /\ planPc = "done"
    /\ \E i \in DOMAIN planIn.sink_caps :
          /\ Cardinality(ParentedOn(planOut.props, planOut.sel, i)) > 1
          /\ planOut.graph.sink_target[i] = "tee"

(***************************************************************************)
(* Claims about a bin left without src pads (checked under SpecPads).       *)
(***************************************************************************)

\* The thread of sink pad i ends the loop of lines 1743-1750.
EndsSendLoop(i) ==
    pc[Sink(i)] = "rebuild_send" /\ pc'[Sink(i)] # "rebuild_send"

\* C12: a thread that entered DRAINING with an empty set of src pads to
\* await goes on to graph_drained (and so to REBUILDING) as soon as its
\* loop over the sink pads ends, whether the sink pads have targets or
\* not; it does not return to chain with the state left at DRAINING.
C12_EmptyAwaitSetRebuildsAtOnce ==
    [][\A i \in SinkPads :
          (i \in entered_empty /\ EndsSendLoop(i))
             => pc'[Sink(i)] = "rebuild_undrained"]_vars

(***************************************************************************)
(* Claims about the graph of a planning pass (checked under SpecPlan).      *)
(***************************************************************************)

\* C21: with one sink pad, one src pad and a viable passthrough the
\* selected proposal has no step and the graph has no tee: the sink pad is
\* connected to the src pad without one.
C21_LonePassthroughHasNoTee ==
    (/\ planPc = "done"
     /\ PlanSinkCount = 1
     /\ PlanSrcCount = 1
     /\ PassthroughViable(planIn.sink_caps[0], planIn.peer_caps[0]))
        => /\ Len(planOut.sel) = 1
           /\ planOut.props[planOut.sel[1]].step_count = 0
           /\ planOut.graph.sink_target[0] # "tee"
           /\ planOut.graph.children = 0

\* The bin a planning pass built.
PlanNetlist == Netlist(planOut.props, planOut.sel, PlanSinkCount)

\* The selected proposals parented on step j of proposal i: BranchOf(i, j).
BranchOf(i, j) ==
    {c \in 1 .. Len(planOut.sel) :
        /\ planOut.props[planOut.sel[c]].parent = i
        /\ planOut.props[planOut.sel[c]].parent_step = j}

\* The links that leave the tee on step j of proposal i.
StepTeeOutputs(i, j) ==
    {l \in PlanNetlist.links :
        l.from.kind = "tee_src" /\ l.from.owner = i /\ l.from.step = j}

\* Where the data of proposal i enters it, or leaves it after its last step
\* (next = its step count).
EntryOf(i, next) ==
    IF next < planOut.props[i].step_count
    THEN GraphPad("elem_sink", i, next, 0)
    ELSE GraphPad("ghost_src", 0, planOut.props[i].src_pad, 0)

NetlistAgreesWithGraph ==
    planPc = "done" =>
        LET net == PlanNetlist
            g == planOut.graph
        IN  /\ g.children = Cardinality(net.elements) + Cardinality(net.tees)
                                + Cardinality(net.fakesinks)
            /\ \A o \in 0 .. PlanSrcCount - 1 :
                  LET into == {l \in net.links :
                                 l.to = GraphPad("ghost_src", 0, o, 0)}
                  IN  /\ Cardinality(into) <= 1
                      /\ g.src_target[o].linked <=> into # {}
            /\ \A s \in 0 .. PlanSinkCount - 1 :
                  LET from == {l \in net.links :
                                 l.from = GraphPad("ghost_sink", 0, s, 0)}
                  IN  /\ Cardinality(from) = 1
                      /\ \A l \in from :
                            g.sink_target[s] =
                                CASE l.to.kind = "tee_sink" -> "tee"
                                  [] l.to.kind = "elem_sink" -> "chain"
                                  [] OTHER -> "fakesink"

(* Claims about the targets of the sink pads. *)

\* In graph g every sink pad has a target, a tee, the head of the one chain
\* parented on it or a fakesink, and a fakesink exactly when no selected
\* proposal is parented directly on it.
SinkPadsTargeted(props, sel, n, g) ==
    \A i \in 0 .. n - 1 :
        /\ g.sink_target[i] \in {"tee", "chain", "fakesink"}
        /\ g.sink_target[i] = "fakesink" <=> ParentedOn(props, sel, i) = {}
        /\ g.sink_target[i] = "chain"
              => Cardinality(ParentedOn(props, sel, i)) = 1

\* C23: after instantiate_proposals every sink pad has exactly one target,
\* a tee, the head of exactly one chain or a fakesink, and it is a fakesink
\* if and only if no selected proposal is parented directly on the pad.
C23_EverySinkPadHasOneTarget ==
    [][BuildGraphRuns
          => SinkPadsTargeted(PlanTable[priv'][current_caps].props,
                              PlanTable[priv'][current_caps].sel,
                              Cardinality(SinkPads), graph')]_vars

\* On a cleared graph instantiate_proposals targets the sink pads as C23
\* says, and in the bin one link leaves each sink ghost pad.
SinkPadsTargetedOnClearedGraph ==
    planPc = "done" =>
        /\ SinkPadsTargeted(planOut.props, planOut.sel, PlanSinkCount,
                            planOut.graph)
        /\ \A i \in 0 .. PlanSinkCount - 1 :
              Cardinality({l \in PlanNetlist.links :
                  l.from = GraphPad("ghost_sink", 0, i, 0)}) = 1

(* The converter and encoder scenario (checked under SpecPlan). *)

\* The planning pass was given the catalog {convert: 1 to 2, encode: 2 to
\* 3}, one sink pad with caps {1}, two src pads whose peers want {2} and
\* {3}, and no cost hook.
ConvertEncodeScenario ==
    /\ planPc = "done"
    /\ planIn.klass = "GstAutoConvert2"
    /\ planIn.catalog = <<PlanFactory("convert", 1, 2, "Converter"),
                          PlanFactory("encode", 2, 3, "Encoder")>>
    /\ PlanSinkCount = 1
    /\ planIn.sink_caps[0] = {1}
    /\ PlanSrcCount = 2
    /\ {planIn.peer_caps[0], planIn.peer_caps[1]} = {{2}, {3}}

\* The sum of the costs of the selected proposals.
RECURSIVE PlanCostFrom(_)
PlanCostFrom(k) ==
    IF k > Len(planOut.sel) THEN U32(0, 0)
    ELSE ExactAdd(planOut.props[planOut.sel[k]].cost, PlanCostFrom(k + 1))

\* The src pad whose peer wants format f.
SrcPadWanting(f) ==
    CHOOSE o \in DOMAIN planIn.peer_caps : planIn.peer_caps[o] = {f}

\* C24: in the scenario the selected proposals cost 2 together and the bin
\* holds one convert and one encode; convert's src pad feeds a tee, one
\* output of the tee is the target of the src pad wanting {2}, another
\* feeds encode, and encode's src pad is the target of the src pad wanting
\* {3}.
C24_ConvertSharedBehindTee ==
    ConvertEncodeScenario =>
        LET net == PlanNetlist
            A == {e \in net.elements : e.factory = "convert"}
            B == {e \in net.elements : e.factory = "encode"}
        IN  /\ PlanCostFrom(1) = U32(0, 2)
            /\ Cardinality(A) = 1
            /\ Cardinality(B) = 1
            /\ Cardinality(net.elements) = 2
            /\ \A a \in A : \A b \in B :
                  /\ <<a.owner, a.step>> \in net.tees
                  /\ Link(GraphPad("elem_src", a.owner, a.step, 0),
                          GraphPad("tee_sink", a.owner, a.step, 0))
                          \in net.links
                  /\ \E l \in net.links :
                        /\ l.from.kind = "tee_src"
                        /\ <<l.from.owner, l.from.step>> = <<a.owner, a.step>>
                        /\ l.to = GraphPad("ghost_src", 0, SrcPadWanting(2), 0)
                  /\ \E l \in net.links :
                        /\ l.from.kind = "tee_src"
                        /\ <<l.from.owner, l.from.step>> = <<a.owner, a.step>>
                        /\ l.to = GraphPad("elem_sink", b.owner, b.step, 0)
                  /\ Link(GraphPad("elem_src", b.owner, b.step, 0),
                          GraphPad("ghost_src", 0, SrcPadWanting(3), 0))
                          \in net.links
                  /\ \E l \in net.links :
                        l.to = GraphPad("elem_sink", a.owner, a.step, 0)

\* The scenario was planned and both src pads got a target.
C24_ScenarioPlanned ==
    /\ ConvertEncodeScenario
    /\ \A o \in 0 .. 1 : planOut.graph.src_target[o].linked

(* Claims about the cost of a proposal (checked under SpecPlan). *)

\* The exact sum of the step costs of the steps from the i-th on.
RECURSIVE ExactStepsCost(_, _)
ExactStepsCost(steps, i) ==
    IF i > Len(steps) THEN U32(0, 0)
    ELSE ExactAdd(cost_transformation_step(PlanElement, steps[i]),
                  ExactStepsCost(steps, i + 1))

CandidateChains == [1 .. Len(generator.iterators) -> 1 .. Len(genIndex)]

\* The stage of position d (from 0) of a chain: 0 to 3 for PARSER, DECODER,
\* CONVERTER, ENCODER, 4 when the entry has none of the four bits.
StageAt(chain, d) == first_stage(genIndex[chain[d + 1]].klass_mask, 0)

\* The positions whose stage exceeds that of the next position.
Descents(chain) ==
    {d \in 0 .. Len(chain) - 2 : StageAt(chain, d) > StageAt(chain, d + 1)}

\* The positions whose entry has none of the four bits.
Unstaged(chain) ==
    {d \in 0 .. Len(chain) - 1 : StageAt(chain, d) = Len(stage_klasses)}

Largest(S) == CHOOSE d \in S : \A e \in S : e <= d

OrderDepth(chain) ==
    validate_element_order(genIndex, genRoute.sink_caps, genRoute.src_caps,
                           chain)

\* C26 as stated: validate_element_order accepts a chain if and only if the
\* stages of its entries are non-decreasing from position 0 to position
\* n - 1, and on rejection it returns the largest position whose stage
\* exceeds that of the next position.
C26_AcceptsIffStagesNonDecreasing ==
    genPc # "off" =>
        \A chain \in CandidateChains :
            /\ OrderDepth(chain) = -1 <=> Descents(chain) = {}
            /\ OrderDepth(chain) # -1
                  => /\ Descents(chain) # {}
                     /\ OrderDepth(chain) = Largest(Descents(chain))

\* What validate_element_order does: an entry with none of the four bits is
\* past ENCODER; the
\* chain is accepted if and only if no entry is past ENCODER and the stages
\* are non-decreasing; a chain with an ENCODER entry directly followed by a
\* DECODER entry is rejected; on rejection the depth returned is the largest
\* position that is past ENCODER or whose stage exceeds that of the next.
C26_AcceptsIffStagedAndNonDecreasing ==
    genPc # "off" =>
        \A chain \in CandidateChains :
            LET bad == Descents(chain) \cup Unstaged(chain)
            IN  /\ OrderDepth(chain) = -1 <=> bad = {}
                /\ OrderDepth(chain) # -1
                      => OrderDepth(chain) = Largest(bad)
                /\ (\E d \in 0 .. Len(chain) - 2 :
                        /\ StageAt(chain, d) = 3
                        /\ StageAt(chain, d + 1) = 1)
                      => OrderDepth(chain) # -1

\* The generator has gone through every chain of its length; one of them
\* has two descents and is refused at the later one, one has no descent and
\* is refused for an entry of no stage, and one passes the order check.
C26_ChainsWithDescentsAndUnstaged ==
    /\ genPc = "done"
    /\ \E chain \in CandidateChains :
          /\ Cardinality(Descents(chain)) = 2
          /\ OrderDepth(chain) = 2
    /\ \E chain \in CandidateChains :
          Descents(chain) = {} /\ OrderDepth(chain) # -1
    /\ \E chain \in CandidateChains : OrderDepth(chain) = -1

\* The two sides of boundary d (0 .. n) of a chain on the generator's route.
BoundarySrcSide(chain, d) ==
    IF d = 0 THEN genRoute.sink_caps ELSE genIndex[chain[d]].src_caps

BoundarySinkSide(chain, d) ==
    IF d = Len(chain) THEN genRoute.src_caps
    ELSE genIndex[chain[d + 1]].sink_caps

\* The boundaries of a chain whose two sides do not intersect.
BrokenBoundaries(chain) ==
    {d \in 0 .. Len(chain) :
        BoundarySrcSide(chain, d) \cap BoundarySinkSide(chain, d) = {}}

CapsDepth(chain) ==
    validate_chain_caps(genIndex, genRoute.sink_caps, genRoute.src_caps,
                        chain)

\* C27: validate_chain_caps accepts a chain of length n if and only if all
\* n + 1 boundaries intersect (the route's sink caps with the first entry's
\* sink caps, each entry's src caps with the next entry's sink caps, the
\* last entry's src caps with the route's src caps); otherwise it returns
\* the failing boundary nearest the src end.
C27_CapsAcceptsIffEveryBoundaryIntersects ==
    genPc # "off" =>
        \A chain \in CandidateChains :
            /\ CapsDepth(chain) = -1 <=> BrokenBoundaries(chain) = {}
            /\ BrokenBoundaries(chain) # {}
                  => CapsDepth(chain) = Largest(BrokenBoundaries(chain))

\* The generator has gone through every chain of its length; one of them
\* has two broken boundaries, the one at the route's src caps among them,
\* one is broken further up only, and one connects.
C27_ChainsBrokenAndConnected ==
    /\ genPc = "done"
    /\ \E chain \in CandidateChains :
          /\ Cardinality(BrokenBoundaries(chain)) >= 2
          /\ Len(chain) \in BrokenBoundaries(chain)
          /\ CapsDepth(chain) = Len(chain)
    /\ \E chain \in CandidateChains :
          /\ BrokenBoundaries(chain) # {}
          /\ Len(chain) \notin BrokenBoundaries(chain)
          /\ CapsDepth(chain) = Largest(BrokenBoundaries(chain))
    /\ \E chain \in CandidateChains : CapsDepth(chain) = -1

(***************************************************************************)
(* Claims about the video policy (checked under Spec).                      *)
(***************************************************************************)

\* Caps a has an image size, smaller on both axes than that of caps b.
SmallerImage(a, b) ==
    /\ get_caps_image_size(a).ok
    /\ get_caps_image_size(b).ok
    /\ get_caps_image_size(a).size[1] < get_caps_image_size(b).size[1]
    /\ get_caps_image_size(a).size[2] < get_caps_image_size(b).size[2]

\* C28: when build_graph runs with the video policy on sink pads of a
\* smaller and a larger image size and the peer of a src pad wants exactly
\* the larger size, validate_transform_route refuses the route from the
\* smaller sink pad to that src pad.
C28_RouteFromSmallerInputRefused ==
    [][BuildGraphRuns =>
          \A i, j \in SinkPads : \A o \in SrcPads :
              (/\ SmallerImage(current_caps[i], current_caps[j])
               /\ priv'.max_sink_image_size
                      = get_caps_image_size(current_caps[j]).size
               /\ get_caps_image_size(PeerCaps[o]).ok
               /\ get_caps_image_size(PeerCaps[o]).size
                      = get_caps_image_size(current_caps[j]).size)
                  => ~gst_auto_video_convert2_validate_transform_route(
                          priv', current_caps[i], PeerCaps[o])]_vars

(***************************************************************************)
(* Claims about caps queries and the factory index (checked under           *)
(* SpecPlan).                                                               *)
(***************************************************************************)

\* The factories of the catalog with exactly one sink template and exactly
\* one src template, as positions of the catalog.
SingleTemplated ==
    {k \in 1 .. Len(planIn.catalog) :
        planIn.catalog[k].sinks = 1 /\ planIn.catalog[k].srcs = 1}

\* The union a caps query on the given side is answered from: what the
\* peers of the pads of the other side advertise, and the sink caps (for a
\* sink pad) or src caps (for a src pad) of the indexed factories.
QueryUnion(side) ==
    IF side = "sink"
    THEN UNION {planIn.peer_caps[o] : o \in DOMAIN planIn.peer_caps}
            \cup UNION {planIn.catalog[k].sink_caps : k \in SingleTemplated}
    ELSE UNION {planIn.sink_caps[i] : i \in DOMAIN planIn.sink_caps}
            \cup UNION {planIn.catalog[k].src_caps : k \in SingleTemplated}

\* C29: a caps query on a pad is answered with the intersection of the
\* filter and the union of what the peers of the pads of the other side
\* advertise and the factory caps of the pad's side; without a filter with
\* the whole union.
C29_QueryAnswersFilteredUnion ==
    planPc = "queried" =>
        planOut.query.result =
            IF planOut.query.filter.given
            THEN planOut.query.filter.caps \cap QueryUnion(planOut.query.side)
            ELSE QueryUnion(planOut.query.side)

\* A filtered query on a sink pad was answered with less than the union,
\* with a format of a peer that no factory takes and a format a factory
\* takes that no peer advertises.
C29_FilterCutTheUnion ==
    /\ planPc = "queried"
    /\ planOut.query.side = "sink"
    /\ planOut.query.filter.given
    /\ planOut.query.result # QueryUnion("sink")
    /\ \E f \in planOut.query.result :
          f \notin all_sink_caps(PlanElement.factory_index)
    /\ \E f \in planOut.query.result :
          \A o \in DOMAIN planIn.peer_caps : f \notin planIn.peer_caps[o]

\* C30: the factory index has exactly one entry for each factory of the
\* catalog with exactly one sink template and exactly one src template, no
\* entry for another factory, and all_sink_caps and all_src_caps are the
\* unions of the sink caps and of the src caps of the indexed factories.
C30_IndexHoldsSingleTemplatedFactories ==
    planPc # "off" =>
        LET index == PlanElement.factory_index
            EntriesOf(k) == {e \in 1 .. Len(index) :
                                index[e].factory = planIn.catalog[k].name}
        IN  /\ \A k \in 1 .. Len(planIn.catalog) :
                  IF k \in SingleTemplated
                  THEN /\ Cardinality(EntriesOf(k)) = 1
                       /\ \A e \in EntriesOf(k) :
                             /\ index[e].sink_caps = planIn.catalog[k].sink_caps
                             /\ index[e].src_caps = planIn.catalog[k].src_caps
                  ELSE EntriesOf(k) = {}
            /\ Len(index) = Cardinality(SingleTemplated)
            /\ all_sink_caps(index) =
                  UNION {index[e].sink_caps : e \in 1 .. Len(index)}
            /\ all_src_caps(index) =
                  UNION {index[e].src_caps : e \in 1 .. Len(index)}

\* A pass was planned with the index of a catalog that has a factory with
\* two src templates, one without a sink template and one with one of each.
C30_CatalogWithSkippedFactories ==
    /\ planPc = "done"
    /\ SingleTemplated # {}
    /\ \E k \in 1 .. Len(planIn.catalog) : planIn.catalog[k].srcs = 2
    /\ \E k \in 1 .. Len(planIn.catalog) : planIn.catalog[k].sinks = 0
    /\ Len(PlanElement.factory_index) = 1

(***************************************************************************)
(* Claims about the EOS handler of the src pads.                            *)
(***************************************************************************)

\* The handler of src pad o reads a state other than DRAINING (line 597) and
\* hands the EOS to gst_pad_event_default.
EosForwardedAtOnce(o) ==
    /\ pc[Src(o)] = "idle"
    /\ o \in eos_in_flight
    /\ o \notin eos_in_flight'
    /\ pc'[Src(o)] = "idle"

\* The handler of src pad o, having read DRAINING, looks the pad up in the
\* table (lines 601-606).
EosDecides(o) == pc[Src(o)] = "eos_pending" /\ pc'[Src(o)] # "eos_pending"

\* drop of line 602: the pad was in the table.
EosDropped(o) ==
    pending_drain_pads # <<>> /\ o \in pending_drain_pads[1]

\* C31: an EOS at a src pad that was recorded when DRAINING was entered and
\* has not acknowledged yet is consumed while the state is DRAINING; an EOS
\* that arrives in another state, or on a src pad that is not awaited, is
\* forwarded.
C31_EosConsumedIffAwaitedWhileDraining ==
    [][\A o \in SrcPads :
          /\ EosDecides(o)
                => (EosDropped(o)
                      <=> (state = "DRAINING_GRAPH" /\ o \in unacked))
          /\ (pc[Src(o)] = "idle" /\ o \in eos_in_flight
                 /\ o \notin eos_in_flight' /\ state # "DRAINING_GRAPH")
                => EosForwardedAtOnce(o)]_vars

(***************************************************************************)
(* Claims about the order of the chain generator.  The chains of length n   *)
(* over an index of m factories are numbered as the numerals of n digits in *)
(* base m; the two numberings differ in the end that holds the digit of     *)
(* weight one.                                                              *)
(***************************************************************************)
RECURSIVE Pow(_, _)
Pow(b, e) ==
    IF e = 0 THEN 1 ELSE b * Pow(b, e - 1)

RECURSIVE RankFrom(_, _, _, _)
RankFrom(chain, m, k, left) ==
    IF k > Len(chain) THEN 0
    ELSE (chain[k] - 1) * Pow(m, IF left THEN k - 1 ELSE Len(chain) - k)
            + RankFrom(chain, m, k + 1, left)

\* Position 0 holds the digit of weight one.
RankLeft(chain) == RankFrom(chain, Len(genIndex), 1, TRUE)

\* Position n - 1 holds the digit of weight one.
RankRight(chain) == RankFrom(chain, Len(genIndex), 1, FALSE)

ChainsOfLength == Pow(Len(genIndex), Len(generator.iterators))

AcceptedChains ==
    {c \in CandidateChains :
        validate_chain(genIndex, genRoute.sink_caps, genRoute.src_caps, c)
            = -1}

\* The generator has yielded its iterators array and may be pulled again.
HasYielded == genPc = "pull" /\ ~generator.init

\* C32 as stated: position n - 1 advances fastest, so that a candidate whose
\* successor in the numbering by RankRight is accepted is followed by that
\* successor.
C32_LastPositionAdvancesFastest ==
    [][\A c \in AcceptedChains :
          (HasYielded
             /\ RankRight(c) = RankRight(generator.iterators) + 1)
          => (genPc' = "pull" /\ generator'.iterators = c)]_vars

\* C32: position 0 advances fastest: a candidate whose successor in the
\* numbering by RankLeft is accepted is followed by that successor, in which
\* position 0 has moved to the next factory or, with every position below i
\* back at the first factory, position i has; and no pull goes back in that
\* numbering.
C32_FirstPositionAdvancesFastest ==
    [][/\ \A c \in AcceptedChains :
             (HasYielded
                /\ RankLeft(c) = RankLeft(generator.iterators) + 1)
             => (genPc' = "pull" /\ generator'.iterators = c)
       /\ (HasYielded /\ genPc' = "pull")
             => RankLeft(generator'.iterators)
                   > RankLeft(generator.iterators)]_vars

\* The generator has yielded a chain of two positions or more that follows
\* an accepted chain at once, position 0 having wrapped to the first factory
\* and position 1 having moved.
C32_YieldedAfterCarry ==
    /\ HasYielded
    /\ Len(generator.iterators) >= 2
    /\ generator.iterators[1] = 1
    /\ generator.iterators[2] = 2
    /\ \E c \in AcceptedChains :
          RankLeft(c) + 1 = RankLeft(generator.iterators)

\* The failing depth validate_chain returns for a candidate, -1 when it
\* accepts it.
FailingDepth(c) ==
    validate_chain(genIndex, genRoute.sink_caps, genRoute.src_caps, c)

\* Lines 925-936 of generate_next_chain after a candidate was refused: the
\* advance that follows, from the depth the validator returned less one.
AdvanceAfter(c) ==
    advance_chain_generator(c, genIndex,
        IF FailingDepth(c) > 0 THEN FailingDepth(c) - 1 ELSE FailingDepth(c))

\* The chain with which a fresh generator starts: every position at the
\* first factory.
FirstChain == [k \in 1 .. Len(generator.iterators) |-> 1]

\* C33 as stated: after a failing depth d the advance leaves positions 0..d
\* as they were and puts positions d+1..n-1 at the first factory.
C33_AdvanceKeepsPositionsUpToDepth ==
    \A c \in CandidateChains :
        (FailingDepth(c) >= 0 /\ AdvanceAfter(c).ok)
        => \A k \in 1 .. Len(c) :
              AdvanceAfter(c).iterators[k] =
                  IF k - 1 <= FailingDepth(c) THEN c[k] ELSE 1

\* C33: after a failing depth d the advance starts at position
\* s = max(d - 1, 0): positions 0..s-1 go to the first factory and the
\* numeral of positions s..n-1 (position s of weight one) grows by one, so
\* that the first position from s with a next factory moves, those it
\* passed wrap and those above it stay; the generator is exhausted when
\* every position from s is at the last factory.  The candidate a fresh
\* generator tests next after its first chain was refused is that chain.
C33_AdvanceStartsBelowFailingDepth ==
    [][/\ \A c \in CandidateChains :
             FailingDepth(c) >= 0
             => LET s == IF FailingDepth(c) > 0 THEN FailingDepth(c) - 1
                         ELSE 0
                    w == Pow(Len(genIndex), s)
                    next == ((RankLeft(c) \div w) + 1) * w
                IN  /\ AdvanceAfter(c).ok <=> next < ChainsOfLength
                    /\ AdvanceAfter(c).ok
                          => RankLeft(AdvanceAfter(c).iterators) = next
       /\ (/\ genPc = "pull" /\ generator.init /\ genIndex # <<>>
           /\ FailingDepth(FirstChain) >= 0
           /\ AdvanceAfter(FirstChain).ok
           /\ AdvanceAfter(FirstChain).iterators \in AcceptedChains)
             => generator'.iterators = AdvanceAfter(FirstChain).iterators
      ]_vars

\* The generator has yielded the chain to which it went from its first
\* chain, refused at a depth of 2 or more: the advance started above
\* position 0.
C33_YieldedAfterFastForward ==
    /\ HasYielded
    /\ FailingDepth(FirstChain) >= 2
    /\ AdvanceAfter(FirstChain).ok
    /\ generator.iterators = AdvanceAfter(FirstChain).iterators

(***************************************************************************)
(* Claims about the cost table of select_proposals.                         *)
(***************************************************************************)

\* min_costs and selected_proposals as select_proposals has filled them when
\* it reads its result (line 1495).
FilledTable == SelectTable(proposals, selSrcCount)

\* C34: in the filled table the cost of an output set is UINT_MAX exactly
\* when no list is recorded for the set, and is otherwise the exact sum of
\* the costs of the proposals recorded: none is a sum wrapped modulo 2^32.
C34_RecordedCostIsExactOrInfinite ==
    selPc = "done" =>
        \A set \in 1 .. (2 ^ selSrcCount) - 1 :
            /\ FilledTable.min_costs[set] = UINT_MAX
                  <=> FilledTable.selected_proposals[set] = <<>>
            /\ FilledTable.selected_proposals[set] # <<>>
                  => FilledTable.min_costs[set] =
                        ExactSeqCost(proposals,
                                     FilledTable.selected_proposals[set], 1)

\* The accepted chain that comes first, in the numbering by RankLeft, among
\* those of S.
FirstOf(S) == CHOOSE c \in S : \A x \in S : RankLeft(c) <= RankLeft(x)

\* The accepted chains the generator has not come to yet.
Remaining ==
    IF generator.init THEN AcceptedChains
    ELSE {c \in AcceptedChains :
            RankLeft(c) > RankLeft(generator.iterators)}

\* C35: each pull of a generator yields the first accepted chain it has not
\* come to yet, and reports exhaustion when there is none: pulled from its
\* initial state the generator yields every accepted chain once, in the
\* order of RankLeft, and then stops; no advance passes an accepted chain.
C35_EveryAcceptedChainYieldedOnce ==
    [][(genPc = "pull" /\ genIndex # <<>>)
          => IF Remaining = {} THEN genPc' = "done"
             ELSE /\ genPc' = "pull"
                  /\ genChain' = FirstOf(Remaining)
                  /\ generator'.iterators = FirstOf(Remaining)]_vars

\* A generator of four positions, pulled to exhaustion, with two accepted
\* chains or more and a candidate refused at depth 2 or more.
C35_ExhaustedAfterFastForwards ==
    /\ genPc = "done"
    /\ Len(generator.iterators) = MaxChainLength
    /\ Cardinality(AcceptedChains) >= 2
    /\ \E c \in CandidateChains : FailingDepth(c) >= 2

(***************************************************************************)
(* Claims about the shape of the list select_proposals returns.             *)
(***************************************************************************)

\* The places in the returned list of the proposals for output pad o.
SelectedFor(o) ==
    {k \in 1 .. Len(selected) : proposals[selected[k]].src_pad = o}

MaskEmpty == {e \in 1 .. Len(genIndex) : genIndex[e].klass_mask = 0}

\* C37: a factory whose klass_mask is empty is at no position of a chain
\* validate_chain accepts, whatever the length, and so at no position of a
\* chain the generator yields.
C37_NoAcceptedChainHoldsUnstagedFactory ==
    /\ \A c \in AcceptedChains : \A k \in 1 .. Len(c) : c[k] \notin MaskEmpty
    /\ \A k \in 1 .. Len(genChain) : genChain[k] \notin MaskEmpty

\* The generator is exhausted over an index with a factory of empty
\* klass_mask, in a chain of two positions or more that the caps check and
\* the check for consecutive elements both pass.
C37_UnstagedFactoryRefusedByOrderAlone ==
    /\ genPc = "done"
    /\ \E c \in CandidateChains :
          /\ Len(c) >= 2
          /\ \E k \in 1 .. Len(c) : c[k] \in MaskEmpty
          /\ validate_chain_caps(genIndex, genRoute.sink_caps,
                                 genRoute.src_caps, c) = -1
          /\ validate_non_consecutive_elements(genIndex, genRoute.sink_caps,
                                               genRoute.src_caps, c) = -1

(***************************************************************************)
(* Claims about the cache of test elements.                                 *)
(***************************************************************************)

\* The chains try_chain has been called on: those the generator yielded.
ChainsTested ==
    IF generator.init THEN {}
    ELSE IF genPc = "done" THEN AcceptedChains
    ELSE {c \in AcceptedChains :
            RankLeft(c) <= RankLeft(generator.iterators)}

Occurrences(factory, chain) ==
    Cardinality({k \in 1 .. Len(chain) : chain[k] = factory})

\* C38: when try_chain has returned, with a proposal or without one, no
\* instance of the cache is marked in use; no instance was at two positions
\* of the chain tested; and the cache holds of no factory more instances
\* than a single tested chain has occurrences of it.
C38_CacheIdleAfterTryChain ==
    genPc # "off" =>
        /\ \A factory \in DOMAIN test_element_cache :
              \A k \in 1 .. Len(test_element_cache[factory]) :
                  ~test_element_cache[factory][k].in_use
        /\ \A i, j \in 1 .. Len(elements) :
              elements[i] = elements[j] => i = j
        /\ \A factory \in DOMAIN test_element_cache :
              \/ test_element_cache[factory] = <<>>
              \/ \E c \in ChainsTested :
                    Len(test_element_cache[factory])
                        <= Occurrences(factory, c)

\* try_chain has returned after a link failed, on a chain that holds one
\* factory twice, and the cache holds two instances of a factory.
C38_AbortedTestOfRepeatedFactory ==
    /\ genPc = "pull"
    /\ genChain # <<>>
    /\ Len(elements) < Len(genChain)
    /\ \E factory \in DOMAIN test_element_cache :
          /\ Occurrences(factory, genChain) = 2
          /\ Len(test_element_cache[factory]) = 2

(***************************************************************************)
(* Claims about the drain cycle.                                            *)
(***************************************************************************)

\* Thread p starts graph_drained: it takes the lock at line 1765.
GraphDrainedStarts(p) ==
    pc[p] = "drained_enter" /\ pc'[p] = "drained_build"

\* C39: graph_drained starts in state DRAINING only, never in IDLE or in
\* REBUILDING; as it takes the state out of DRAINING, it then runs once for
\* each entry into DRAINING.
C39_GraphDrainedOncePerDraining ==
    [][\A p \in Procs : GraphDrainedStarts(p) => state = "DRAINING_GRAPH"]_vars

\* C40: with every EOS sent into the graph reaching the src pads it is fed
\* to, each entry into DRAINING is followed by state IDLE.
C40_EveryDrainCycleTerminates ==
    (state = "DRAINING_GRAPH") ~> (state = "IDLE")

\* The element waits in DRAINING with nothing left that could end the wait:
\* no EOS is on its way, no handler is at work, every thread of a sink pad
\* is idle or waits on sink_block_cond, and the table still holds a src pad.
DrainStuck ==
    /\ state = "DRAINING_GRAPH"
    /\ eos_in_flight = {}
    /\ \A o \in SrcPads : pc[Src(o)] = "idle"
    /\ \A i \in SinkPads : pc[Sink(i)] = "idle" \/ i \in sink_block_cond
    /\ pending_drain_pads # <<>>
    /\ pending_drain_pads[1] # {}

=============================================================================
